---- MODULE Spec2Model ----
(***************************************************************************)
(* IdentityCrisis: the voice-state event handler (bot/cogs/voice_handler), *)
(* the transformation engine (bot/data/transformers), the nickname pool    *)
(* and the dashboard API operations that write the configuration tables.   *)
(*                                                                         *)
(* A name (nickname, username, rule value) is a sequence of characters,    *)
(* each character a one-character string, or "U+XXXX" for a code point     *)
(* outside ASCII.  Python's None is the value None below, which is not a   *)
(* sequence of characters.                                                 *)
(***************************************************************************)
EXTENDS Integers, Sequences, FiniteSets, TLC

None == <<"<None>">>

\* The characters of an ASCII string literal.
Chars(s) == [i \in 1..Len(s) |-> SubSeq(s, i, i)]

---------------------------------------------------------------------------
(* bot/data/transformers.py                                                *)

LowerAscii == Chars("abcdefghijklmnopqrstuvwxyz")
UpperAscii == Chars("ABCDEFGHIJKLMNOPQRSTUVWXYZ")
Digits == Chars("0123456789")

\* Position of character c in the sequence s, 0 when absent.
IndexOf(c, s) ==
    IF \E i \in 1..Len(s) : s[i] = c
    THEN CHOOSE i \in 1..Len(s) : s[i] = c /\ \A j \in 1..(i - 1) : s[j] # c
    ELSE 0

\* str.maketrans(from, to) applied to one character: the mapped character,
\* or the character itself when the table has no entry for it.
Translate(from, to, c) ==
    IF IndexOf(c, from) = 0 THEN c ELSE to[IndexOf(c, from)]

UPSIDE_DOWN_FROM == LowerAscii \o UpperAscii \o Digits

UPSIDE_DOWN_TO ==
    <<"U+0250", "q", "U+0254", "p", "U+01DD", "U+025F", "U+0183", "U+0265", "U+1D09", "U+027E",
      "U+029E", "l", "U+026F", "u", "o", "d", "b", "U+0279", "s", "U+0287",
      "n", "U+028C", "U+028D", "x", "U+028E", "z", "U+2200", "q", "U+0186", "p",
      "U+018E", "U+2132", "U+05E4", "H", "I", "U+017F", "U+029E", "U+02E5", "W", "N",
      "O", "U+0500", "Q", "U+0279", "S", "U+2534", "U+2229", "U+039B", "M", "X",
      "U+2144", "Z", "0", "U+0196", "U+1105", "U+0190", "U+3123", "U+03DB", "9", "U+3125",
      "8", "6">>

MIRROR_FROM == LowerAscii \o UpperAscii

MIRROR_TO ==
    <<"U+0252", "d", "U+0254", "b", "U+0258", "U+0287", "U+01EB", "U+029C", "i", "U+012F",
      "U+029E", "l", "m", "n", "o", "q", "p", "U+027F", "U+A645", "U+019A",
      "U+03C5", "v", "w", "x", "y", "z", "A", "d", "U+0186", "b",
      "U+018E", "U+A7FB", "G", "H", "I", "J", "U+029E", "U+2143", "M", "U+1D0E",
      "O", "U+A7FC", "Q", "U+042F", "U+01A7", "T", "U", "V", "W", "X",
      "Y", "Z">>

LEET_FROM == Chars("aAeEiIoOsStTlL")
LEET_TO == Chars("44331100$$7711")

\* Python's str.isalpha / str.upper / str.lower for the characters outside
\* ASCII that the tables above produce (and their case variants), and for two
\* characters whose case mapping is not a bijection: <<character, isalpha,
\* upper(), lower()>>.
UnicodeCase ==
    <<<<"U+00DF", TRUE, <<"S", "S">>, <<"U+00DF">>>>,
      <<"U+012E", TRUE, <<"U+012E">>, <<"U+012F">>>>,
      <<"U+012F", TRUE, <<"U+012E">>, <<"U+012F">>>>,
      <<"U+0131", TRUE, <<"I">>, <<"U+0131">>>>,
      <<"U+017F", TRUE, <<"S">>, <<"U+017F">>>>,
      <<"U+0182", TRUE, <<"U+0182">>, <<"U+0183">>>>,
      <<"U+0183", TRUE, <<"U+0182">>, <<"U+0183">>>>,
      <<"U+0186", TRUE, <<"U+0186">>, <<"U+0254">>>>,
      <<"U+018E", TRUE, <<"U+018E">>, <<"U+01DD">>>>,
      <<"U+0190", TRUE, <<"U+0190">>, <<"U+025B">>>>,
      <<"U+0196", TRUE, <<"U+0196">>, <<"U+0269">>>>,
      <<"U+019A", TRUE, <<"U+023D">>, <<"U+019A">>>>,
      <<"U+019C", TRUE, <<"U+019C">>, <<"U+026F">>>>,
      <<"U+01A7", TRUE, <<"U+01A7">>, <<"U+01A8">>>>,
      <<"U+01A8", TRUE, <<"U+01A7">>, <<"U+01A8">>>>,
      <<"U+01DD", TRUE, <<"U+018E">>, <<"U+01DD">>>>,
      <<"U+01EA", TRUE, <<"U+01EA">>, <<"U+01EB">>>>,
      <<"U+01EB", TRUE, <<"U+01EA">>, <<"U+01EB">>>>,
      <<"U+023D", TRUE, <<"U+023D">>, <<"U+019A">>>>,
      <<"U+0245", TRUE, <<"U+0245">>, <<"U+028C">>>>,
      <<"U+0250", TRUE, <<"U+2C6F">>, <<"U+0250">>>>,
      <<"U+0252", TRUE, <<"U+2C70">>, <<"U+0252">>>>,
      <<"U+0254", TRUE, <<"U+0186">>, <<"U+0254">>>>,
      <<"U+0258", TRUE, <<"U+0258">>, <<"U+0258">>>>,
      <<"U+025B", TRUE, <<"U+0190">>, <<"U+025B">>>>,
      <<"U+025F", TRUE, <<"U+025F">>, <<"U+025F">>>>,
      <<"U+0265", TRUE, <<"U+A78D">>, <<"U+0265">>>>,
      <<"U+0269", TRUE, <<"U+0196">>, <<"U+0269">>>>,
      <<"U+026F", TRUE, <<"U+019C">>, <<"U+026F">>>>,
      <<"U+0279", TRUE, <<"U+0279">>, <<"U+0279">>>>,
      <<"U+027E", TRUE, <<"U+027E">>, <<"U+027E">>>>,
      <<"U+027F", TRUE, <<"U+027F">>, <<"U+027F">>>>,
      <<"U+0287", TRUE, <<"U+A7B1">>, <<"U+0287">>>>,
      <<"U+028C", TRUE, <<"U+0245">>, <<"U+028C">>>>,
      <<"U+028D", TRUE, <<"U+028D">>, <<"U+028D">>>>,
      <<"U+028E", TRUE, <<"U+028E">>, <<"U+028E">>>>,
      <<"U+029C", TRUE, <<"U+029C">>, <<"U+029C">>>>,
      <<"U+029E", TRUE, <<"U+A7B0">>, <<"U+029E">>>>,
      <<"U+02E5", FALSE, <<"U+02E5">>, <<"U+02E5">>>>,
      <<"U+039B", TRUE, <<"U+039B">>, <<"U+03BB">>>>,
      <<"U+03A5", TRUE, <<"U+03A5">>, <<"U+03C5">>>>,
      <<"U+03BB", TRUE, <<"U+039B">>, <<"U+03BB">>>>,
      <<"U+03C5", TRUE, <<"U+03A5">>, <<"U+03C5">>>>,
      <<"U+03DA", TRUE, <<"U+03DA">>, <<"U+03DB">>>>,
      <<"U+03DB", TRUE, <<"U+03DA">>, <<"U+03DB">>>>,
      <<"U+042F", TRUE, <<"U+042F">>, <<"U+044F">>>>,
      <<"U+044F", TRUE, <<"U+042F">>, <<"U+044F">>>>,
      <<"U+0500", TRUE, <<"U+0500">>, <<"U+0501">>>>,
      <<"U+0501", TRUE, <<"U+0500">>, <<"U+0501">>>>,
      <<"U+05E4", TRUE, <<"U+05E4">>, <<"U+05E4">>>>,
      <<"U+1105", TRUE, <<"U+1105">>, <<"U+1105">>>>,
      <<"U+1D09", TRUE, <<"U+1D09">>, <<"U+1D09">>>>,
      <<"U+1D0E", TRUE, <<"U+1D0E">>, <<"U+1D0E">>>>,
      <<"U+2132", TRUE, <<"U+2132">>, <<"U+214E">>>>,
      <<"U+2143", FALSE, <<"U+2143">>, <<"U+2143">>>>,
      <<"U+2144", FALSE, <<"U+2144">>, <<"U+2144">>>>,
      <<"U+214E", TRUE, <<"U+2132">>, <<"U+214E">>>>,
      <<"U+2200", FALSE, <<"U+2200">>, <<"U+2200">>>>,
      <<"U+2229", FALSE, <<"U+2229">>, <<"U+2229">>>>,
      <<"U+2534", FALSE, <<"U+2534">>, <<"U+2534">>>>,
      <<"U+2C6F", TRUE, <<"U+2C6F">>, <<"U+0250">>>>,
      <<"U+2C70", TRUE, <<"U+2C70">>, <<"U+0252">>>>,
      <<"U+3123", TRUE, <<"U+3123">>, <<"U+3123">>>>,
      <<"U+3125", TRUE, <<"U+3125">>, <<"U+3125">>>>,
      <<"U+A644", TRUE, <<"U+A644">>, <<"U+A645">>>>,
      <<"U+A645", TRUE, <<"U+A644">>, <<"U+A645">>>>,
      <<"U+A78D", TRUE, <<"U+A78D">>, <<"U+0265">>>>,
      <<"U+A7B0", TRUE, <<"U+A7B0">>, <<"U+029E">>>>,
      <<"U+A7B1", TRUE, <<"U+A7B1">>, <<"U+0287">>>>,
      <<"U+A7FB", TRUE, <<"U+A7FB">>, <<"U+A7FB">>>>,
      <<"U+A7FC", TRUE, <<"U+A7FC">>, <<"U+A7FC">>>>>>

CaseRow(c) ==
    IF \E i \in 1..Len(UnicodeCase) : UnicodeCase[i][1] = c
    THEN UnicodeCase[CHOOSE i \in 1..Len(UnicodeCase) : UnicodeCase[i][1] = c]
    ELSE <<c, FALSE, <<c>>, <<c>>>>

\* char.isalpha()
IsAlpha(c) == IndexOf(c, LowerAscii) # 0 \/ IndexOf(c, UpperAscii) # 0 \/ CaseRow(c)[2]

\* char.upper(): a sequence, since one character may upper-case to two.
UpperChar(c) ==
    IF IndexOf(c, LowerAscii) # 0 THEN <<UpperAscii[IndexOf(c, LowerAscii)]>>
    ELSE CaseRow(c)[3]

\* char.lower()
LowerChar(c) ==
    IF IndexOf(c, UpperAscii) # 0 THEN <<LowerAscii[IndexOf(c, UpperAscii)]>>
    ELSE CaseRow(c)[4]

RECURSIVE Reverse(_)
\* s[::-1]
Reverse(s) == IF s = <<>> THEN <<>> ELSE Append(Reverse(Tail(s)), Head(s))

RECURSIVE Flatten(_)
\* "".join(parts)
Flatten(parts) == IF parts = <<>> THEN <<>> ELSE Head(parts) \o Flatten(Tail(parts))

\* A variant of transform_reverse with the slice nickname[:0:-1], which
\* leaves out the first character.
ReverseFromSecond(nickname, value) ==
    IF nickname = <<>> THEN <<>> ELSE Reverse(Tail(nickname))

transform_reverse(nickname, value) == Reverse(nickname)

transform_upside_down(nickname, value) ==
    Reverse([i \in 1..Len(nickname) |->
                Translate(UPSIDE_DOWN_FROM, UPSIDE_DOWN_TO, nickname[i])])

transform_mirror(nickname, value) ==
    Reverse([i \in 1..Len(nickname) |->
                Translate(MIRROR_FROM, MIRROR_TO, nickname[i])])

transform_leetspeak(nickname, value) ==
    [i \in 1..Len(nickname) |-> Translate(LEET_FROM, LEET_TO, nickname[i])]

RECURSIVE SarcasticFrom(_, _, _)
\* The loop of transform_sarcastic from the i-th character on: the flag
\* `upper` flips after every alphabetic character.
SarcasticFrom(nickname, i, upper) ==
    IF i > Len(nickname) THEN <<>>
    ELSE IF IsAlpha(nickname[i])
    THEN (IF upper THEN UpperChar(nickname[i]) ELSE LowerChar(nickname[i]))
         \o SarcasticFrom(nickname, i + 1, ~upper)
    ELSE <<nickname[i]>> \o SarcasticFrom(nickname, i + 1, upper)

\* The flag `upper` starts False.
transform_sarcastic(nickname, value) == SarcasticFrom(nickname, 1, FALSE)

transform_uppercase(nickname, value) ==
    Flatten([i \in 1..Len(nickname) |-> UpperChar(nickname[i])])

\* A variant of transform_lowercase that returns the nickname as it is.
LowercaseKeepingCase(nickname, value) == nickname

transform_lowercase(nickname, value) ==
    Flatten([i \in 1..Len(nickname) |-> LowerChar(nickname[i])])

\* `if value:` is false for None and for the empty string.
transform_prefix(nickname, value) ==
    IF value # None /\ value # <<>> THEN value \o Chars(" ") \o nickname ELSE nickname

transform_suffix(nickname, value) ==
    IF value # None /\ value # <<>> THEN nickname \o Chars(" ") \o value ELSE nickname

\* TRANSFORMERS[rule_type](result, rule_value); a type that is not in the
\* registry leaves the result alone.
ApplyRule(result, rule) ==
    CASE rule.type = "reverse" -> transform_reverse(result, rule.value)
      [] rule.type = "upside_down" -> transform_upside_down(result, rule.value)
      [] rule.type = "mirror" -> transform_mirror(result, rule.value)
      [] rule.type = "leetspeak" -> transform_leetspeak(result, rule.value)
      [] rule.type = "sarcastic" -> transform_sarcastic(result, rule.value)
      [] rule.type = "uppercase" -> transform_uppercase(result, rule.value)
      [] rule.type = "lowercase" -> transform_lowercase(result, rule.value)
      [] rule.type = "prefix" -> transform_prefix(result, rule.value)
      [] rule.type = "suffix" -> transform_suffix(result, rule.value)
      [] OTHER -> result

\* Discord's nickname limit: apply_rules returns result[:32].
MaxNickLen == 32

RECURSIVE ApplyAll(_, _)
ApplyAll(result, rules) ==
    IF rules = <<>> THEN result
    ELSE ApplyAll(ApplyRule(result, Head(rules)), Tail(rules))

RECURSIVE ApplyTruncatingEachStage(_, _)
\* A variant of apply_rules that cuts the result to 32 characters after every
\* rule, not once after the last.
ApplyTruncatingEachStage(nickname, rules) ==
    LET cut == SubSeq(nickname, 1, IF Len(nickname) < MaxNickLen THEN Len(nickname)
                                   ELSE MaxNickLen)
    IN  IF rules = <<>> THEN cut
        ELSE ApplyTruncatingEachStage(ApplyRule(cut, Head(rules)), Tail(rules))

\* A variant of apply_rules without the final truncation.
ApplyUntruncated(nickname, rules) == ApplyAll(nickname, rules)

apply_rules(nickname, rules) ==
    LET result == ApplyAll(nickname, rules)
    IN  SubSeq(result, 1, IF Len(result) < MaxNickLen THEN Len(result) ELSE MaxNickLen)

Rule(type, value) == [type |-> type, value |-> value]

---------------------------------------------------------------------------
(* The universe of the model.                                              *)

\* An absent id: before.channel is None, immunity_role_id is None.
NoId == "None"

Guilds == {"g1"}
Members == {"alice", "bob"}
Channels == {"c1", "c2", "c3"}

\* member.name (the platform username) and the nickname each member had set
\* before the bot touched it (None: no nickname).
MemberName == [alice |-> Chars("Alice"), bob |-> Chars("robert")]
OwnNick == [alice |-> None, bob |-> Chars("Bob")]

\* The bot's own account when it is not one of Members, a guild owner who is
\* not one of Members, and the role a guild may configure as immunity role.
BotAccount == "identitycrisis"
OtherOwner == "carol"
VipRole == "vip"

\* Who "alice" is in a behaviour: an ordinary member, the bot's own account,
\* the guild owner, a member whose top role equals or exceeds the bot's, or a
\* holder of VipRole.  "bob" is always an ordinary member.
Personas == {"member", "bot", "owner", "peer", "senior", "vip"}

\* Positions of the top roles: guild.me.top_role and member.top_role.
RolePosition == [bot |-> 2, member |-> 1, peer |-> 2, senior |-> 3]

\* discord.Member.display_name: the nickname when set, else the username.
DisplayName(m, nickname) == IF nickname # None THEN nickname ELSE MemberName[m]

\* The display name a member has when the bot has not touched them.
OwnDisplayName(m) == DisplayName(m, OwnNick[m])

(* data/nicknames.py: DEFAULT_NICKNAMES.  The list has 51 entries; the      *)
(* model keeps its shortest and its longest entry.                         *)
DEFAULT_NICKNAMES == {Chars("Greg"), Chars("Professional Overthinker")}

\* Nicknames a dashboard user submits to add_nickname: a short one, one of
\* exactly 32 characters and one of 33.
Name32 == Chars("Abcdefghijklmnopqrstuvwxyz012345")
Name33 == Chars("Abcdefghijklmnopqrstuvwxyz0123456")
NicknameInputs == {Name32, Name33}

\* Rule chains a dashboard user submits for a custom channel.
RuleInputs == {<<>>, <<Rule("suffix", Chars("[AFK - away from keyboard]"))>>}

\* The texts and the rules handed to the transformation engine: an empty
\* text, a short one, one of 33 characters and one of 20 sharp s (each
\* upper-cases to two characters); every rule type of the registry and one
\* that is not in it, without a value, and prefix and suffix with an empty
\* and a long value.
EngineTexts == {<<>>, Chars("Bob"), Name33, [i \in 1..20 |-> "U+00DF"]}
EngineValues == {<<>>, Chars("[AFK - away from keyboard]")}
EngineRules ==
    {Rule(t, None) : t \in {"reverse", "upside_down", "mirror", "leetspeak", "sarcastic",
                             "uppercase", "lowercase", "prefix", "suffix", "rot13"}}
    \cup {Rule(t, v) : t \in {"prefix", "suffix"}, v \in EngineValues}

\* Display names the handler hands to apply_rules (member.display_name, at
\* most 32 characters on Discord): an empty one, a short one, "Stra" sharp-s
\* "e", and one of exactly 32 characters; and the rule chains of one call.
DisplayNames == {<<>>, Chars("Bob"), <<"S", "t", "r", "a", "U+00DF", "e">>, Name32}
CallChains ==
    {<<rule>> : rule \in EngineRules}
    \cup {<<Rule("uppercase", None), Rule("lowercase", None)>>}

\* The number of calls of apply_rules that feed one another.
MaxRuns == 2

\* The longest rule chain handed to the transformation engine.
MaxChainLen == 3

\* The highest row id a table's autoincrement sequence hands out.
MaxRowId == 1

\* The number of handler runs that may be in flight at once.
MaxTasks == 2

---------------------------------------------------------------------------
(* State.                                                                  *)

VARIABLES
    guilds,              \* table guilds: guild id -> settings row
    nicknames,           \* table nicknames: rows [id, guild_id, nickname]
    included_channels,   \* table included_channels: rows [id, guild_id, channel_id]
    custom_channels,     \* table custom_channels: rows [id, guild_id, channel_id, rules]
    excluded_channels,   \* table excluded_channels: rows [id, guild_id, channel_id]
    seq,                 \* last id handed out by each table's autoincrement
    original_nicknames,  \* VoiceHandler.original_nicknames: guild -> member -> snapshot
    guild_members,       \* platform: guild.members, the members of each guild
    nick,                \* platform: member.nick per guild and member
    voice,               \* platform: the channel each member is in, or NoId
    owner_id,            \* platform: guild.owner_id
    bot_user_id,         \* platform: bot.user.id
    top_role,            \* platform: position of member.top_role
    roles,               \* platform: ids of the roles a member holds
    renamed,             \* history: members sent a rename since they last joined voice
    restored,            \* history: members restored with success since they last joined voice
    last,                \* the event handled by the last step and the calls it made
    tasks,               \* event loop: the handler runs in flight, each suspended at an await
    engine,              \* a run of the transformation engine: input, rule chain, output
    simple               \* the simple handler (cogs/voice_handler.py): its store, its platform
                         \* nicknames and the calls it made at the last event

db == <<guilds, nicknames, included_channels, custom_channels, excluded_channels, seq>>
rulesTables == <<included_channels, custom_channels, excluded_channels>>
platform == <<guild_members, owner_id, bot_user_id, top_role, roles>>
history == <<renamed, restored>>
runtime == <<tasks, engine, simple>>
vars == <<db, original_nicknames, nick, voice, platform, history, last, runtime>>

\* No event: the value of `last` after a step that handled no voice event.
NoEvent == [kind |-> "none", guild |-> NoId, member |-> NoId, before |-> NoId, calls |-> <<>>]

EmptyDict == [k \in {} |-> None]

\* A free slot of the event loop, and the event loop with no handler in flight.
IdleTask ==
    [pc |-> "idle", guild |-> NoId, member |-> NoId, before |-> NoId, after |-> NoId,
     settings |-> [enabled |-> TRUE, restore_on_leave |-> TRUE, immunity_role_id |-> NoId],
     calls |-> <<>>]
NoTasks == [t \in 1..MaxTasks |-> IdleTask]

\* No run of the transformation engine.
NoRun == [nickname |-> <<>>, rules |-> <<>>, result |-> <<>>]

\* The simple handler after construction (cogs/voice_handler.py, lines 21-27):
\* an empty store; nobody has been renamed and no call has been made.
NoSimple ==
    [original_nicknames |-> EmptyDict,
     nick |-> [g \in Guilds |-> [m \in Members |-> OwnNick[m]]],
     calls |-> <<>>]

---------------------------------------------------------------------------
(* shared/database.py: Guild row defaults; the handler's database lookups. *)

DefaultGuild == [enabled |-> TRUE, restore_on_leave |-> TRUE, immunity_role_id |-> NoId]

\* _get_guild_nicknames: the guild's own nicknames, or the default list.
_get_guild_nicknames(g) ==
    LET custom_nicknames == {r.nickname : r \in {x \in nicknames : x.guild_id = g}}
    IN  IF custom_nicknames # {} THEN custom_nicknames ELSE DEFAULT_NICKNAMES

\* _is_custom_channel: a custom_channels row exists for (guild, channel).
_is_custom_channel(g, c) ==
    \E r \in custom_channels : r.guild_id = g /\ r.channel_id = c

\* A variant of _is_channel_allowed in which a guild that has only Custom
\* rules admits every channel.
CustomOnlyAdmitsAll(g, c) ==
    LET included == {r \in included_channels : r.guild_id = g}
        custom == {r \in custom_channels : r.guild_id = g}
    IN  IF _is_custom_channel(g, c) THEN TRUE
        ELSE IF included = {} /\ custom = {} THEN TRUE
        ELSE IF included # {} THEN \E ch \in included : ch.channel_id = c
        ELSE TRUE

\* A variant of _is_channel_allowed in which the allow-list admits every
\* channel as soon as it is not empty.
AllowListAdmitsAll(g, c) ==
    LET included == {r \in included_channels : r.guild_id = g}
        custom == {r \in custom_channels : r.guild_id = g}
    IN  IF _is_custom_channel(g, c) THEN TRUE
        ELSE IF included = {} /\ custom = {} THEN TRUE
        ELSE included # {}

\* _is_channel_allowed
_is_channel_allowed(g, c) ==
    LET included == {r \in included_channels : r.guild_id = g}
        custom == {r \in custom_channels : r.guild_id = g}
    IN  IF _is_custom_channel(g, c) THEN TRUE
        ELSE IF included = {} /\ custom = {} THEN TRUE
        ELSE IF included # {} THEN \E ch \in included : ch.channel_id = c
        ELSE FALSE

\* _get_custom_channel_rules: the row's rules when the row exists and its
\* rule list is not empty, else None.  The caller only tests the result for
\* truth (`if custom_rules:`), so None is modelled by the empty list.
_get_custom_channel_rules(g, c) ==
    IF \E r \in custom_channels : r.guild_id = g /\ r.channel_id = c /\ r.rules # <<>>
    THEN (CHOOSE r \in custom_channels : r.guild_id = g /\ r.channel_id = c).rules
    ELSE <<>>

\* _ensure_guild_exists: the guilds table with a default row for g if it had none.
_ensure_guild_exists(g) ==
    IF g \in DOMAIN guilds THEN guilds ELSE guilds @@ (g :> DefaultGuild)

---------------------------------------------------------------------------
(* bot/cogs/voice_handler.py: the session store and the two mutator calls. *)
(* A handler run threads S = [store, nick, calls]: the session store, the  *)
(* member's nickname on the platform and the calls made so far.            *)

HasSnapshot(store, g, m) == g \in DOMAIN store /\ m \in DOMAIN store[g]

\* A variant of _store_original_nickname that stores on every call.
StoreOverwriting(store, g, m, nickname, display_name) ==
    LET withGuild == IF g \in DOMAIN store THEN store ELSE store @@ (g :> EmptyDict)
    IN  [withGuild EXCEPT ![g] =
            [k \in (DOMAIN @) \cup {m} |->
                IF k = m THEN [nick |-> nickname, display_name |-> display_name] ELSE @[k]]]

\* _store_original_nickname: create the guild's dict if missing; store only
\* when the member has no entry.
_store_original_nickname(store, g, m, nickname, display_name) ==
    LET withGuild == IF g \in DOMAIN store THEN store ELSE store @@ (g :> EmptyDict)
    IN  IF m \in DOMAIN withGuild[g] THEN withGuild
        ELSE [withGuild EXCEPT ![g] =
                 @ @@ (m :> [nick |-> nickname, display_name |-> display_name])]

\* A variant of _pop_original_nickname that returns the stored nickname.
PoppedNick(store, g, m) ==
    IF HasSnapshot(store, g, m) THEN store[g][m].nick ELSE None

\* _pop_original_nickname, the value returned: the stored display name, or None.
PoppedName(store, g, m) ==
    IF HasSnapshot(store, g, m) THEN store[g][m].display_name ELSE None

\* _pop_original_nickname, the store left behind: the member's entry removed,
\* the guild's dict kept.
PoppedStore(store, g, m) ==
    IF HasSnapshot(store, g, m)
    THEN [store EXCEPT ![g] = [k \in (DOMAIN @) \ {m} |-> @[k]]]
    ELSE store

\* _get_original_display_name
_get_original_display_name(store, g, m) ==
    IF HasSnapshot(store, g, m) THEN store[g][m].display_name ELSE None

Call(op, issued, nickname, ok, found) ==
    [op |-> op, issued |-> issued, nick |-> nickname, ok |-> ok, found |-> found]

\* The condition under which _restore_nickname calls member.edit.
RestoreEdits(store, g, original) == g \in DOMAIN store \/ original # None

\* A variant of _restore_nickname that keeps the snapshot when member.edit fails.
RestoreKeepingOnFailure(S, g, m, ok) ==
    LET original == PoppedName(S.store, g, m)
        edits == RestoreEdits(S.store, g, original)
    IN  [store |-> IF edits /\ ok THEN PoppedStore(S.store, g, m) ELSE S.store,
         nick |-> IF edits /\ ok THEN original ELSE S.nick,
         calls |-> Append(S.calls,
                      Call("restore", edits, original, edits /\ ok, HasSnapshot(S.store, g, m)))]

\* A variant of _restore_nickname that reads the snapshot with get and leaves
\* it in the store.
RestorePeeking(S, g, m, ok) ==
    LET original == PoppedName(S.store, g, m)
        edits == RestoreEdits(S.store, g, original)
    IN  [store |-> S.store,
         nick |-> IF edits /\ ok THEN original ELSE S.nick,
         calls |-> Append(S.calls,
                      Call("restore", edits, original, edits /\ ok, HasSnapshot(S.store, g, m)))]

\* _restore_nickname; ok is the outcome of member.edit when it is called.
_restore_nickname(S, g, m, ok) ==
    LET original == PoppedName(S.store, g, m)
        edits == RestoreEdits(S.store, g, original)
    IN  [store |-> PoppedStore(S.store, g, m),
         nick |-> IF edits /\ ok THEN original ELSE S.nick,
         calls |-> Append(S.calls,
                      Call("restore", edits, original, edits /\ ok, HasSnapshot(S.store, g, m)))]

\* A variant of _change_nickname that empties the session store when
\* member.edit fails.
ChangeClearingOnFailure(S, new_nickname, ok) ==
    [store |-> IF ok THEN S.store ELSE EmptyDict,
     nick |-> IF ok THEN new_nickname ELSE S.nick,
     calls |-> Append(S.calls, Call("rename", TRUE, new_nickname, ok, FALSE))]

\* A variant of _change_nickname that calls member.edit a second time when
\* the first call fails.
ChangeRetryingOnFailure(S, new_nickname, ok) ==
    [store |-> S.store,
     nick |-> IF ok THEN new_nickname ELSE S.nick,
     calls |-> IF ok THEN Append(S.calls, Call("rename", TRUE, new_nickname, TRUE, FALSE))
               ELSE S.calls \o <<Call("rename", TRUE, new_nickname, FALSE, FALSE),
                                 Call("rename", TRUE, new_nickname, FALSE, FALSE)>>]

\* _change_nickname; ok is the outcome of member.edit.
_change_nickname(S, new_nickname, ok) ==
    [store |-> S.store,
     nick |-> IF ok THEN new_nickname ELSE S.nick,
     calls |-> Append(S.calls, Call("rename", TRUE, new_nickname, ok, FALSE))]

\* Every result of _restore_nickname over the outcomes the mutator may have.
Restorations(S, g, m, Outcomes) ==
    {_restore_nickname(S, g, m, ok) :
        ok \in IF RestoreEdits(S.store, g, PoppedName(S.store, g, m)) THEN Outcomes ELSE {FALSE}}

_user_joined_voice(before, after) == before = NoId /\ after # NoId
_user_left_voice(before, after) == before # NoId /\ after = NoId
\* A variant of _user_changed_channel without the comparison of the channel ids.
ChangedWithoutIdTest(before, after) == before # NoId /\ after # NoId
_user_changed_channel(before, after) == before # NoId /\ after # NoId /\ before # after

\* A variant of _can_rename_member without the guild-owner test.
CanRenameOwner(g, m) ==
    IF m = bot_user_id THEN FALSE
    ELSE IF RolePosition.bot <= top_role[g][m] THEN FALSE
    ELSE TRUE

\* A variant of _can_rename_member whose role test is `<` instead of `<=`.
CanRenameEqualRank(g, m) ==
    IF m = bot_user_id THEN FALSE
    ELSE IF m = owner_id[g] THEN FALSE
    ELSE IF RolePosition.bot < top_role[g][m] THEN FALSE
    ELSE TRUE

\* _can_rename_member
_can_rename_member(g, m) ==
    IF m = bot_user_id THEN FALSE
    ELSE IF m = owner_id[g] THEN FALSE
    ELSE IF RolePosition.bot <= top_role[g][m] THEN FALSE
    ELSE TRUE

\* A variant of _has_immunity that compares the role objects with the
\* configured id, which never matches.
ImmunityNeverMatches(g, m, guild_settings) ==
    IF guild_settings.immunity_role_id = NoId THEN FALSE
    ELSE guild_settings.immunity_role_id \in {}

\* _has_immunity
_has_immunity(g, m, guild_settings) ==
    IF guild_settings.immunity_role_id = NoId THEN FALSE
    ELSE guild_settings.immunity_role_id \in roles[g][m]

---------------------------------------------------------------------------
(* bot/cogs/voice_handler.py: on_voice_state_update.                       *)

\* A variant of the test at line 323 that reads restore_on_leave only.
RestoresOnLeaveSetting(was_custom_channel, guild_settings) ==
    guild_settings.restore_on_leave

\* Line 323: on left-voice, restore when leaving a custom channel or when
\* restore_on_leave is set.
RestoresOnLeave(was_custom_channel, guild_settings) ==
    was_custom_channel \/ guild_settings.restore_on_leave

\* A variant of the test at line 330 that reads _user_joined_voice.
RestoresBeforeJoin(was_custom_channel, before, after) ==
    was_custom_channel /\ _user_joined_voice(before, after)

\* Line 330: on a channel change out of a custom channel, restore first.
RestoresBeforeEntry(was_custom_channel, before, after) ==
    was_custom_channel /\ _user_changed_channel(before, after)

\* A variant of the test at lines 336-337 without `not was_custom_channel`.
RestoresOnAnyRefusal(was_custom_channel, guild_settings, before, after) ==
    /\ _user_changed_channel(before, after)
    /\ guild_settings.restore_on_leave

\* Lines 336-337: the new channel is not allowed; restore on a channel change
\* when restore_on_leave is set and the old channel was not custom.
RestoresOnRefusal(was_custom_channel, guild_settings, before, after) ==
    /\ _user_changed_channel(before, after)
    /\ guild_settings.restore_on_leave
    /\ ~was_custom_channel

\* A variant of lines 351-357 without the test of _user_joined_voice.
StoreOnEveryEntry(S, g, m, before, after) ==
    [S EXCEPT !.store =
        _store_original_nickname(S.store, g, m, S.nick, DisplayName(m, S.nick))]

\* Lines 351-357: the snapshot is stored on joined-voice only, from the live
\* member.nick and member.display_name.
StoreOnEntry(S, g, m, before, after) ==
    IF _user_joined_voice(before, after)
    THEN [S EXCEPT !.store =
             _store_original_nickname(S.store, g, m, S.nick, DisplayName(m, S.nick))]
    ELSE S

\* member.display_name read at line 369.  The member object is updated by the
\* gateway's member-update event, which may or may not have been processed
\* since an earlier member.edit of this handler run returned: the name is the
\* one at the start of the event or the one the edit set.
LiveDisplayNames(m, event_nick, S) ==
    {DisplayName(m, event_nick), DisplayName(m, S.nick)}

\* Lines 359-374: the nicknames the handler may compute for the rename.
NewNicknames(S, g, m, after, event_nick) ==
    LET custom_rules == _get_custom_channel_rules(g, after)
        original_name == _get_original_display_name(S.store, g, m)
    IN  IF custom_rules # <<>>
        THEN IF original_name # None /\ original_name # <<>>
             THEN {apply_rules(original_name, custom_rules)}
             ELSE {apply_rules(n, custom_rules) : n \in LiveDisplayNames(m, event_nick, S)}
        ELSE _get_guild_nicknames(g)

\* Lines 333-376, run from the state S1 the optional first restore left.
EnterChannel(S1, g, m, before, after, guild_settings, was_custom_channel, event_nick, Outcomes) ==
    IF ~_is_channel_allowed(g, after)
    THEN IF RestoresOnRefusal(was_custom_channel, guild_settings, before, after)
         THEN Restorations(S1, g, m, Outcomes)
         ELSE {S1}
    ELSE IF ~_can_rename_member(g, m) THEN {S1}
    ELSE IF _has_immunity(g, m, guild_settings) THEN {S1}
    ELSE LET S2 == StoreOnEntry(S1, g, m, before, after)
         IN  {_change_nickname(S2, new_nickname, ok) :
                 new_nickname \in NewNicknames(S2, g, m, after, event_nick),
                 ok \in Outcomes}

\* A variant of on_voice_state_update without the test of `enabled` (line 311).
HandleIgnoringEnabled(S0, g, m, before, after, guild_settings, Outcomes) ==
    LET was_custom_channel == before # NoId /\ _is_custom_channel(g, before)
    IN  IF _user_left_voice(before, after)
        THEN IF RestoresOnLeave(was_custom_channel, guild_settings)
             THEN Restorations(S0, g, m, Outcomes)
             ELSE {S0}
        ELSE IF _user_joined_voice(before, after) \/ _user_changed_channel(before, after)
        THEN UNION {EnterChannel(S1, g, m, before, after, guild_settings,
                                 was_custom_channel, S0.nick, Outcomes) :
                       S1 \in IF RestoresBeforeEntry(was_custom_channel, before, after)
                              THEN Restorations(S0, g, m, Outcomes)
                              ELSE {S0}}
        ELSE {S0}

\* on_voice_state_update from line 310 on: the set of results the handler may
\* end with, given the settings row and the outcomes the mutator may have.
on_voice_state_update(S0, g, m, before, after, guild_settings, Outcomes) ==
    LET was_custom_channel == before # NoId /\ _is_custom_channel(g, before)
    IN  IF ~guild_settings.enabled THEN {S0}
        ELSE IF _user_left_voice(before, after)
        THEN IF RestoresOnLeave(was_custom_channel, guild_settings)
             THEN Restorations(S0, g, m, Outcomes)
             ELSE {S0}
        ELSE IF _user_joined_voice(before, after) \/ _user_changed_channel(before, after)
        THEN UNION {EnterChannel(S1, g, m, before, after, guild_settings,
                                 was_custom_channel, S0.nick, Outcomes) :
                       S1 \in IF RestoresBeforeEntry(was_custom_channel, before, after)
                              THEN Restorations(S0, g, m, Outcomes)
                              ELSE {S0}}
        ELSE {S0}

EventKind(before, after) ==
    IF _user_joined_voice(before, after) THEN "joined"
    ELSE IF _user_left_voice(before, after) THEN "left"
    ELSE IF _user_changed_channel(before, after) THEN "changed"
    ELSE "noop"

Renames(calls) == {i \in 1..Len(calls) : calls[i].op = "rename"}
Restores(calls) == {i \in 1..Len(calls) : calls[i].op = "restore"}
\* The identity-mutation commands: the calls that reached member.edit.
Commands(calls) == {i \in 1..Len(calls) : calls[i].issued}

\* The platform delivers a voice-state update for member m of guild g, whose
\* channel was `before` and is now `after`, and the handler runs to its end.
\* Outcomes are the results member.edit may have; track says whether the
\* history variables follow the run.
VoiceStateUpdate(g, m, before, after, Outcomes, track) ==
    /\ m \in guild_members[g]
    /\ voice[g][m] = before
    /\ guilds' = _ensure_guild_exists(g)
    /\ \E S \in on_voice_state_update(
                    [store |-> original_nicknames, nick |-> nick[g][m], calls |-> <<>>],
                    g, m, before, after, guilds'[g], Outcomes) :
          /\ original_nicknames' = S.store
          /\ nick' = [nick EXCEPT ![g][m] = S.nick]
          /\ last' = [kind |-> EventKind(before, after), guild |-> g, member |-> m,
                      before |-> before, calls |-> S.calls]
          /\ IF track
             THEN /\ renamed' = (IF _user_joined_voice(before, after)
                                 THEN renamed \ {<<g, m>>} ELSE renamed)
                                \cup {<<g, m>> : i \in Renames(S.calls)}
                  /\ restored' = (IF _user_joined_voice(before, after)
                                  THEN restored \ {<<g, m>>} ELSE restored)
                                 \cup {<<g, m>> : i \in {j \in Restores(S.calls) :
                                                            S.calls[j].found /\ S.calls[j].ok}}
             ELSE UNCHANGED history
    /\ voice' = [voice EXCEPT ![g][m] = after]
    /\ UNCHANGED <<nicknames, rulesTables, seq, platform, runtime>>

Joined(Outcomes, track) ==
    \E g \in Guilds, m \in Members, c \in Channels :
        VoiceStateUpdate(g, m, NoId, c, Outcomes, track)

Left(Outcomes, track) ==
    \E g \in Guilds, m \in Members, c \in Channels :
        VoiceStateUpdate(g, m, c, NoId, Outcomes, track)

Changed(Outcomes, track) ==
    \E g \in Guilds, m \in Members, a \in Channels :
        \E b \in Channels \ {a} : VoiceStateUpdate(g, m, a, b, Outcomes, track)

\* A voice-state update that is no channel transition (mute, deafen, ...).
NoTransition(Outcomes, track) ==
    \E g \in Guilds, m \in Members, c \in Channels \cup {NoId} :
        VoiceStateUpdate(g, m, c, c, Outcomes, track)

---------------------------------------------------------------------------
(* bot/cogs/voice_handler.py: on_voice_state_update as a coroutine.  The    *)
(* library starts one task per event; a task runs until it awaits a         *)
(* collaborator (a database query, member.edit) and other tasks run while   *)
(* it is suspended.  A step below is the code between two awaits that       *)
(* reads or writes the store, the guilds table or the nickname; the awaits  *)
(* of the rule-table queries lie inside the steps Resolve and Rename, which *)
(* is sound while no step writes those tables.  The event loop runs the     *)
(* handlers of joined-voice and left-voice events.                          *)

\* The first free slot of the event loop.
FreeSlot ==
    CHOOSE t \in 1..MaxTasks :
        tasks[t].pc = "idle" /\ \A u \in 1..(t - 1) : tasks[u].pc # "idle"

\* The member moves and the gateway event starts a handler task.
Dispatch(g, m, before, after) ==
    /\ m \in guild_members[g]
    /\ voice[g][m] = before
    /\ \E t \in 1..MaxTasks : tasks[t].pc = "idle"
    /\ voice' = [voice EXCEPT ![g][m] = after]
    /\ tasks' = [tasks EXCEPT ![FreeSlot] =
                    [IdleTask EXCEPT !.pc = "lookup_guild", !.guild = g, !.member = m,
                                     !.before = before, !.after = after]]
    /\ UNCHANGED <<db, original_nicknames, nick, platform, history, last, engine, simple>>

\* _ensure_guild_exists, lines 130-133: the SELECT of the guild's row.
LookupGuild(t) ==
    /\ tasks[t].pc = "lookup_guild"
    /\ tasks' = [tasks EXCEPT ![t] =
                    IF tasks[t].guild \in DOMAIN guilds
                    THEN [@ EXCEPT !.pc = "resolve", !.settings = guilds[tasks[t].guild]]
                    ELSE [@ EXCEPT !.pc = "insert_guild"]]
    /\ UNCHANGED <<db, original_nicknames, nick, voice, platform, history, last, engine, simple>>

\* _ensure_guild_exists, lines 135-143: the INSERT sent by session.commit().
\* guilds.id is the primary key: when a row for the guild has been inserted
\* since the SELECT, the database refuses the second one and the
\* IntegrityError, which nothing catches, ends the handler.
InsertGuild(t) ==
    /\ tasks[t].pc = "insert_guild"
    /\ IF tasks[t].guild \in DOMAIN guilds
       THEN /\ tasks' = [tasks EXCEPT ![t] = IdleTask]
            /\ last' = [kind |-> "raised", guild |-> tasks[t].guild,
                        member |-> tasks[t].member, before |-> tasks[t].before,
                        calls |-> <<>>]
            /\ UNCHANGED guilds
       ELSE /\ guilds' = _ensure_guild_exists(tasks[t].guild)
            /\ tasks' = [tasks EXCEPT ![t] =
                            [@ EXCEPT !.pc = "resolve", !.settings = DefaultGuild]]
            /\ UNCHANGED last
    /\ UNCHANGED <<nicknames, rulesTables, seq, original_nicknames, nick, voice, platform,
                   history, engine, simple>>

\* Lines 310-357 for a joined-voice or left-voice event: the states the step
\* may leave and where the task goes, "rename" (suspended at line 360) or "done".
ResolveResults(S0, g, m, before, after, guild_settings, Outcomes) ==
    LET was_custom_channel == before # NoId /\ _is_custom_channel(g, before)
    IN  IF ~guild_settings.enabled THEN {[S |-> S0, pc |-> "done"]}
        ELSE IF _user_left_voice(before, after)
        THEN IF RestoresOnLeave(was_custom_channel, guild_settings)
             THEN {[S |-> S, pc |-> "done"] : S \in Restorations(S0, g, m, Outcomes)}
             ELSE {[S |-> S0, pc |-> "done"]}
        ELSE IF ~_is_channel_allowed(g, after) THEN {[S |-> S0, pc |-> "done"]}
        ELSE IF ~_can_rename_member(g, m) THEN {[S |-> S0, pc |-> "done"]}
        ELSE IF _has_immunity(g, m, guild_settings) THEN {[S |-> S0, pc |-> "done"]}
        ELSE {[S |-> StoreOnEntry(S0, g, m, before, after), pc |-> "rename"]}

\* The task ends (or is suspended again) having left the state S.
TaskStep(t, S, pc) ==
    /\ original_nicknames' = S.store
    /\ nick' = [nick EXCEPT ![tasks[t].guild][tasks[t].member] = S.nick]
    /\ IF pc = "done"
       THEN /\ tasks' = [tasks EXCEPT ![t] = IdleTask]
            /\ last' = [kind |-> EventKind(tasks[t].before, tasks[t].after),
                        guild |-> tasks[t].guild, member |-> tasks[t].member,
                        before |-> tasks[t].before, calls |-> S.calls]
       ELSE /\ tasks' = [tasks EXCEPT ![t] = [@ EXCEPT !.pc = pc, !.calls = S.calls]]
            /\ UNCHANGED last
    /\ UNCHANGED <<db, voice, platform, history, engine, simple>>

\* The task resumes with the settings row it read and runs lines 310-357.
Resolve(t, Outcomes) ==
    /\ tasks[t].pc = "resolve"
    /\ \E R \in ResolveResults(
                    [store |-> original_nicknames,
                     nick |-> nick[tasks[t].guild][tasks[t].member], calls |-> tasks[t].calls],
                    tasks[t].guild, tasks[t].member, tasks[t].before, tasks[t].after,
                    tasks[t].settings, Outcomes) :
          TaskStep(t, R.S, R.pc)

\* The task resumes after the query of line 360 and runs lines 365-376 on
\* the store and the nickname as they are now.
Rename(t, Outcomes) ==
    /\ tasks[t].pc = "rename"
    /\ LET g == tasks[t].guild
           m == tasks[t].member
           S == [store |-> original_nicknames, nick |-> nick[g][m], calls |-> tasks[t].calls]
       IN  \E new_nickname \in NewNicknames(S, g, m, tasks[t].after, nick[g][m]),
              ok \in Outcomes :
              TaskStep(t, _change_nickname(S, new_nickname, ok), "done")

---------------------------------------------------------------------------
(* web/routes/api.py: the dashboard operations that write the tables.  A   *)
(* request that ends in an HTTP error changes nothing and is no step.      *)

ApiStep ==
    UNCHANGED <<original_nicknames, nick, voice, platform, history, runtime>> /\ last' = NoEvent

\* on_guild_join / _sync_guilds: the guild's row is created if missing.
on_guild_join(g) ==
    /\ g \notin DOMAIN guilds
    /\ guilds' = _ensure_guild_exists(g)
    /\ UNCHANGED <<nicknames, rulesTables, seq>>
    /\ ApiStep

update_guild_settings(g, settings) ==
    /\ g \in DOMAIN guilds
    /\ guilds' = [guilds EXCEPT ![g] = settings]
    /\ UNCHANGED <<nicknames, rulesTables, seq>>
    /\ ApiStep

\* A variant of the length test of add_nickname that admits every nickname.
AnyNicknameAccepted(nickname) == TRUE

\* add_nickname, lines 264-268: a nickname of more than 32 characters is refused.
NicknameAccepted(nickname) == Len(nickname) <= MaxNickLen

add_nickname(g, nickname) ==
    /\ NicknameAccepted(nickname)
    /\ g \in DOMAIN guilds
    /\ seq.nicknames < MaxRowId
    /\ seq' = [seq EXCEPT !.nicknames = @ + 1]
    /\ nicknames' = nicknames \cup
          {[id |-> seq.nicknames + 1, guild_id |-> g, nickname |-> nickname]}
    /\ UNCHANGED <<guilds, rulesTables>>
    /\ ApiStep

delete_nickname(g, nickname_id) ==
    /\ \E r \in nicknames : r.id = nickname_id /\ r.guild_id = g
    /\ nicknames' = {r \in nicknames : ~(r.id = nickname_id /\ r.guild_id = g)}
    /\ UNCHANGED <<guilds, rulesTables, seq>>
    /\ ApiStep

add_included_channel(g, channel_id) ==
    /\ ~\E r \in included_channels : r.guild_id = g /\ r.channel_id = channel_id
    /\ seq.included_channels < MaxRowId
    /\ seq' = [seq EXCEPT !.included_channels = @ + 1]
    /\ included_channels' = included_channels \cup
          {[id |-> seq.included_channels + 1, guild_id |-> g, channel_id |-> channel_id]}
    /\ UNCHANGED <<guilds, nicknames, custom_channels, excluded_channels>>
    /\ ApiStep

remove_included_channel(g, channel_db_id) ==
    /\ \E r \in included_channels : r.id = channel_db_id /\ r.guild_id = g
    /\ included_channels' =
          {r \in included_channels : ~(r.id = channel_db_id /\ r.guild_id = g)}
    /\ UNCHANGED <<guilds, nicknames, custom_channels, excluded_channels, seq>>
    /\ ApiStep

add_custom_channel(g, channel_id, rules) ==
    /\ ~\E r \in custom_channels : r.guild_id = g /\ r.channel_id = channel_id
    /\ seq.custom_channels < MaxRowId
    /\ seq' = [seq EXCEPT !.custom_channels = @ + 1]
    /\ custom_channels' = custom_channels \cup
          {[id |-> seq.custom_channels + 1, guild_id |-> g, channel_id |-> channel_id,
            rules |-> rules]}
    /\ UNCHANGED <<guilds, nicknames, included_channels, excluded_channels>>
    /\ ApiStep

update_custom_channel(g, channel_db_id, rules) ==
    /\ \E r \in custom_channels : r.id = channel_db_id /\ r.guild_id = g /\ r.rules # rules
    /\ custom_channels' =
          {IF r.id = channel_db_id /\ r.guild_id = g THEN [r EXCEPT !.rules = rules] ELSE r :
              r \in custom_channels}
    /\ UNCHANGED <<guilds, nicknames, included_channels, excluded_channels, seq>>
    /\ ApiStep

delete_custom_channel(g, channel_db_id) ==
    /\ \E r \in custom_channels : r.id = channel_db_id /\ r.guild_id = g
    /\ custom_channels' =
          {r \in custom_channels : ~(r.id = channel_db_id /\ r.guild_id = g)}
    /\ UNCHANGED <<guilds, nicknames, included_channels, excluded_channels, seq>>
    /\ ApiStep

\* The settings a dashboard user submits.  update_guild_settings overwrites all
\* three fields, and a disabled guild's other fields are never read, so one
\* disabled record stands for all of them.
SettingsInputs ==
    {[enabled |-> FALSE, restore_on_leave |-> TRUE, immunity_role_id |-> NoId]} \cup
    [enabled : {TRUE}, restore_on_leave : BOOLEAN, immunity_role_id : {NoId, VipRole}]

---------------------------------------------------------------------------
(* Specifications.                                                         *)

\* The attributes of "alice" under each persona.
PersonaInit(p) ==
    /\ bot_user_id = IF p = "bot" THEN "alice" ELSE BotAccount
    /\ owner_id = [g \in Guilds |-> IF p = "owner" THEN "alice" ELSE OtherOwner]
    /\ top_role = [g \in Guilds |-> [m \in Members |->
                      IF m = "alice" /\ p = "peer" THEN RolePosition.peer
                      ELSE IF m = "alice" /\ p = "senior" THEN RolePosition.senior
                      ELSE RolePosition.member]]
    /\ roles = [g \in Guilds |-> [m \in Members |->
                      IF m = "alice" /\ p = "vip" THEN {VipRole} ELSE {}]]

\* The kinds of rule a channel may carry in the initial database: none, an
\* Included row, or a Custom row with an empty or a non-empty rule list.
ChannelKinds == {"plain", "included", "custom_empty", "custom"}
KindRank == [plain |-> 0, included |-> 1, custom_empty |-> 2, custom |-> 3]

\* The rule assignments of the initial database.  Channels are interchangeable,
\* so one assignment per multiset of kinds is kept.
RuleAssignments ==
    {k \in [Channels -> ChannelKinds] :
        KindRank[k["c1"]] >= KindRank[k["c2"]] /\ KindRank[k["c2"]] >= KindRank[k["c3"]]}

ChannelNo == [c1 |-> 1, c2 |-> 2, c3 |-> 3]

\* The handler has just been constructed: its store is empty.  Nobody is in
\* voice and every member has their own nickname.  The database is one the
\* dashboard can have produced: no guild row yet or any settings row, an empty
\* custom pool, and at most one row per table, guild and channel.
Init ==
    /\ guilds = EmptyDict
    /\ nicknames = {}
    /\ \E k \in RuleAssignments :
          /\ included_channels =
                {[id |-> ChannelNo[c], guild_id |-> g, channel_id |-> c] :
                    g \in Guilds, c \in {x \in Channels : k[x] = "included"}}
          /\ custom_channels =
                {[id |-> ChannelNo[c], guild_id |-> g, channel_id |-> c,
                  rules |-> IF k[c] = "custom_empty" THEN <<>>
                            ELSE <<Rule("suffix", Chars("[AFK - away from keyboard]"))>>] :
                    g \in Guilds, c \in {x \in Channels : k[x] \in {"custom_empty", "custom"}}}
          /\ excluded_channels \in
                {{}} \cup {{[id |-> 1, guild_id |-> g, channel_id |-> "c1"] : g \in Guilds} :
                              x \in {y \in {1} : \A c \in Channels : k[c] = "plain"}}
    /\ seq = [nicknames |-> 0, included_channels |-> 3, custom_channels |-> 3]
    /\ original_nicknames = EmptyDict
    /\ nick = [g \in Guilds |-> [m \in Members |-> OwnNick[m]]]
    /\ voice = [g \in Guilds |-> [m \in Members |-> NoId]]
    /\ guild_members = [g \in Guilds |-> {"alice"}]
    /\ \E p \in Personas : PersonaInit(p)
    /\ renamed = {}
    /\ restored = {}
    /\ last = NoEvent
    /\ tasks = NoTasks
    /\ simple = NoSimple
    /\ engine = NoRun

Api ==
    \/ \E g \in Guilds : on_guild_join(g)
    \/ \E g \in Guilds, s \in SettingsInputs : update_guild_settings(g, s)
    \/ \E g \in Guilds, n \in NicknameInputs : add_nickname(g, n)
    \/ \E g \in Guilds, i \in 1..MaxRowId : delete_nickname(g, i)
    \/ \E g \in Guilds, c \in Channels : add_included_channel(g, c)
    \/ \E g \in Guilds, i \in 1..MaxRowId : remove_included_channel(g, i)
    \/ \E g \in Guilds, c \in Channels, r \in RuleInputs : add_custom_channel(g, c, r)
    \/ \E g \in Guilds, i \in 1..MaxRowId, r \in RuleInputs : update_custom_channel(g, i, r)
    \/ \E g \in Guilds, i \in 1..MaxRowId : delete_custom_channel(g, i)

Settings ==
    \/ \E g \in Guilds : on_guild_join(g)
    \/ \E g \in Guilds, s \in SettingsInputs : update_guild_settings(g, s)
    \/ \E g \in Guilds, n \in NicknameInputs : add_nickname(g, n)
    \/ \E g \in Guilds, i \in 1..MaxRowId : delete_nickname(g, i)

Next ==
    \/ Joined(BOOLEAN, FALSE)
    \/ Left(BOOLEAN, FALSE)
    \/ Changed(BOOLEAN, FALSE)
    \/ NoTransition(BOOLEAN, FALSE)
    \/ Settings

Spec == Init /\ [][Next]_vars

\* The same events in guilds whose settings stay the default ones (enabled,
\* restore_on_leave true, no immunity role), with a mutator that always
\* succeeds; the history variables follow the events.
NextRestoring ==
    \/ Joined({TRUE}, TRUE)
    \/ Left({TRUE}, TRUE)
    \/ Changed({TRUE}, TRUE)
    \/ NoTransition({TRUE}, TRUE)

SpecRestoring == Init /\ [][NextRestoring]_vars

\* The dashboard writes the channel rules while voice events are handled.  The
\* database starts empty (a fresh deployment), the member is an ordinary one,
\* and the mutator always succeeds.
InitApi ==
    /\ guilds = EmptyDict
    /\ nicknames = {}
    /\ included_channels = {}
    /\ custom_channels = {}
    /\ excluded_channels = {}
    /\ seq = [nicknames |-> 0, included_channels |-> 0, custom_channels |-> 0]
    /\ original_nicknames = EmptyDict
    /\ nick = [g \in Guilds |-> [m \in Members |-> OwnNick[m]]]
    /\ voice = [g \in Guilds |-> [m \in Members |-> NoId]]
    /\ guild_members = [g \in Guilds |-> {"alice"}]
    /\ PersonaInit("member")
    /\ renamed = {}
    /\ restored = {}
    /\ last = NoEvent
    /\ tasks = NoTasks
    /\ simple = NoSimple
    /\ engine = NoRun

ChannelRules ==
    \/ \E g \in Guilds, c \in Channels : add_included_channel(g, c)
    \/ \E g \in Guilds, i \in 1..MaxRowId : remove_included_channel(g, i)
    \/ \E g \in Guilds, c \in Channels, r \in RuleInputs : add_custom_channel(g, c, r)
    \/ \E g \in Guilds, i \in 1..MaxRowId, r \in RuleInputs : update_custom_channel(g, i, r)
    \/ \E g \in Guilds, i \in 1..MaxRowId : delete_custom_channel(g, i)

NextApi ==
    \/ Joined({TRUE}, FALSE)
    \/ Left({TRUE}, FALSE)
    \/ Changed({TRUE}, FALSE)
    \/ ChannelRules

SpecApi == InitApi /\ [][NextApi]_vars

\* A guild without channel rules, a member who is an ordinary one, and a
\* mutator that always succeeds; events are dispatched to the event loop.
InitLoop ==
    /\ nicknames = {}
    /\ included_channels = {}
    /\ custom_channels = {}
    /\ excluded_channels = {}
    /\ seq = [nicknames |-> 0, included_channels |-> 0, custom_channels |-> 0]
    /\ original_nicknames = EmptyDict
    /\ nick = [g \in Guilds |-> [m \in Members |-> OwnNick[m]]]
    /\ voice = [g \in Guilds |-> [m \in Members |-> NoId]]
    /\ guild_members = [g \in Guilds |-> {"alice"}]
    /\ PersonaInit("member")
    /\ renamed = {}
    /\ restored = {}
    /\ last = NoEvent
    /\ tasks = NoTasks
    /\ simple = NoSimple
    /\ engine = NoRun

Dispatched ==
    \/ \E g \in Guilds, m \in Members, c \in Channels : Dispatch(g, m, NoId, c)
    \/ \E g \in Guilds, m \in Members, c \in Channels : Dispatch(g, m, c, NoId)

\* The guild has its settings row (defaults), so no handler inserts one.
InitRace == InitLoop /\ guilds = [g \in Guilds |-> DefaultGuild]

NextRace ==
    \/ Dispatched
    \/ \E t \in 1..MaxTasks : LookupGuild(t)
    \/ \E t \in 1..MaxTasks : Resolve(t, {TRUE})
    \/ \E t \in 1..MaxTasks : Rename(t, {TRUE})

SpecRace == InitRace /\ [][NextRace]_vars

\* The guild has no settings row yet: the first handlers create it.
InitSelfHeal == InitLoop /\ guilds = EmptyDict

NextSelfHeal ==
    \/ Dispatched
    \/ \E t \in 1..MaxTasks : LookupGuild(t)
    \/ \E t \in 1..MaxTasks : InsertGuild(t)
    \/ \E t \in 1..MaxTasks : Resolve(t, {TRUE})
    \/ \E t \in 1..MaxTasks : Rename(t, {TRUE})

SpecSelfHeal == InitSelfHeal /\ [][NextSelfHeal]_vars

\* Two ordinary members in one guild with default settings, one channel with
\* a Custom rule, one with an Included rule and one with no rule; the mutator
\* may fail on every call.
InitMembers ==
    /\ guilds = [g \in Guilds |-> DefaultGuild]
    /\ nicknames = {}
    /\ included_channels = {[id |-> 1, guild_id |-> g, channel_id |-> "c2"] : g \in Guilds}
    /\ custom_channels =
          {[id |-> 1, guild_id |-> g, channel_id |-> "c1",
            rules |-> <<Rule("suffix", Chars("[AFK - away from keyboard]"))>>] : g \in Guilds}
    /\ excluded_channels = {}
    /\ seq = [nicknames |-> 0, included_channels |-> 1, custom_channels |-> 1]
    /\ original_nicknames = EmptyDict
    /\ nick = [g \in Guilds |-> [m \in Members |-> OwnNick[m]]]
    /\ voice = [g \in Guilds |-> [m \in Members |-> NoId]]
    /\ guild_members = [g \in Guilds |-> Members]
    /\ PersonaInit("member")
    /\ renamed = {}
    /\ restored = {}
    /\ last = NoEvent
    /\ tasks = NoTasks
    /\ simple = NoSimple
    /\ engine = NoRun

NextMembers ==
    \/ Joined(BOOLEAN, FALSE)
    \/ Left(BOOLEAN, FALSE)
    \/ Changed(BOOLEAN, FALSE)

SpecMembers == InitMembers /\ [][NextMembers]_vars

\* The transformation engine on its own: apply_rules is run on a text with
\* an empty chain, then with the chain extended by one rule at a time.
InitRules ==
    /\ guilds = EmptyDict
    /\ nicknames = {}
    /\ included_channels = {}
    /\ custom_channels = {}
    /\ excluded_channels = {}
    /\ seq = [nicknames |-> 0, included_channels |-> 0, custom_channels |-> 0]
    /\ original_nicknames = EmptyDict
    /\ nick = [g \in Guilds |-> [m \in Members |-> OwnNick[m]]]
    /\ voice = [g \in Guilds |-> [m \in Members |-> NoId]]
    /\ guild_members = [g \in Guilds |-> {"alice"}]
    /\ PersonaInit("member")
    /\ renamed = {}
    /\ restored = {}
    /\ last = NoEvent
    /\ tasks = NoTasks
    /\ simple = NoSimple
    /\ \E text \in EngineTexts :
          engine = [nickname |-> text, rules |-> <<>>, result |-> apply_rules(text, <<>>)]

\* apply_rules(nickname, rules) with the chain so far and one more rule.
ApplyRules(rule) ==
    /\ Len(engine.rules) < MaxChainLen
    /\ engine' = [nickname |-> engine.nickname,
                  rules |-> Append(engine.rules, rule),
                  result |-> apply_rules(engine.nickname, Append(engine.rules, rule))]
    /\ UNCHANGED <<db, original_nicknames, nick, voice, platform, history, last, tasks, simple>>

NextRules == \E rule \in EngineRules : ApplyRules(rule)

SpecRules == InitRules /\ [][NextRules]_vars

\* Calls of apply_rules that feed one another: the first call runs on a display
\* name, each further call on the output of the call before it.  Here `last`
\* is the sequence of the earlier calls, oldest first.
Run(nickname, rules) ==
    [nickname |-> nickname, rules |-> rules, result |-> apply_rules(nickname, rules)]

InitRoundTrip ==
    /\ guilds = EmptyDict
    /\ nicknames = {}
    /\ included_channels = {}
    /\ custom_channels = {}
    /\ excluded_channels = {}
    /\ seq = [nicknames |-> 0, included_channels |-> 0, custom_channels |-> 0]
    /\ original_nicknames = EmptyDict
    /\ nick = [g \in Guilds |-> [m \in Members |-> OwnNick[m]]]
    /\ voice = [g \in Guilds |-> [m \in Members |-> NoId]]
    /\ guild_members = [g \in Guilds |-> {"alice"}]
    /\ PersonaInit("member")
    /\ renamed = {}
    /\ restored = {}
    /\ last = <<>>
    /\ tasks = NoTasks
    /\ simple = NoSimple
    /\ \E name \in DisplayNames, rules \in CallChains : engine = Run(name, rules)

\* apply_rules(result, rules) with the output of the call before.
ApplyToOutput(rules) ==
    /\ Len(last) < MaxRuns - 1
    /\ last' = Append(last, engine)
    /\ engine' = Run(engine.result, rules)
    /\ UNCHANGED <<db, original_nicknames, nick, voice, platform, history, tasks, simple>>

NextRoundTrip == \E rules \in CallChains : ApplyToOutput(rules)

SpecRoundTrip == InitRoundTrip /\ [][NextRoundTrip]_vars

---------------------------------------------------------------------------
(* Properties.  Each is stated on `last`, the event the last step handled   *)
(* and the calls it made, on the state the step left, and (in the action    *)
(* formulas) on the state it started from.                                  *)

\* The destination channel of the event `last` describes.
LastChannel == voice[last.guild][last.member]

\* `last` is a joined-voice or a changed-channel event.
LastIsEntry == last.kind \in {"joined", "changed"}

\* The guild has no Included, Custom or Excluded rule.
NoChannelRules(g) ==
    /\ ~\E r \in included_channels : r.guild_id = g
    /\ ~\E r \in custom_channels : r.guild_id = g
    /\ ~\E r \in excluded_channels : r.guild_id = g

\* The member passes the handler's eligibility checks under the guild's settings.
Eligible(g, m, guild_settings) ==
    _can_rename_member(g, m) /\ ~_has_immunity(g, m, guild_settings)

\* C1: in an enabled guild with restore-on-leave true and a mutator that
\* always succeeds, when a member who has received a rename command since they
\* joined voice leaves voice, the handler issues a restore command that carries
\* the identity the member had before their first rename (their own nickname,
\* or the display name it gives them).
C1_LeaveRestoresIdentity ==
    (last.kind = "left" /\ <<last.guild, last.member>> \in renamed) =>
        \E i \in Restores(last.calls) :
            /\ last.calls[i].issued
            /\ last.calls[i].nick \in {OwnNick[last.member], OwnDisplayName(last.member)}

\* C2: restoration is exactly-once.  When a restoration for a member has
\* succeeded and no joined-voice event for them was handled since, every
\* further restoration attempt for that member finds no snapshot, issues no
\* mutator command and reports failure.
C2_RestorationExactlyOnce ==
    [][(<<last'.guild, last'.member>> \in restored) =>
          \A i \in Restores(last'.calls) :
              /\ ~last'.calls[i].found
              /\ ~last'.calls[i].issued
              /\ ~last'.calls[i].ok]_vars

\* C3: a restoration attempt for a member who has no snapshot in the session
\* store issues no mutator command, reports failure and leaves the store
\* unchanged, whatever the store holds or held for other members of the guild.
C3_RestoreWithoutSnapshotIsNoOp ==
    [][\A i \in Restores(last'.calls) :
          ~last'.calls[i].found =>
              /\ ~last'.calls[i].issued
              /\ ~last'.calls[i].ok
              /\ original_nicknames' = original_nicknames]_vars

\* C4: snapshotting is idempotent.  A joined-voice event for a member who
\* still has a snapshot (an earlier joined-voice event stored it and no
\* restoration removed it) leaves the stored nickname and display name as they
\* were.
C4_SnapshotIsIdempotent ==
    [][(last'.kind = "joined"
            /\ HasSnapshot(original_nicknames, last'.guild, last'.member)) =>
          /\ HasSnapshot(original_nicknames', last'.guild, last'.member)
          /\ original_nicknames'[last'.guild][last'.member]
                = original_nicknames[last'.guild][last'.member]]_vars

\* C4, the case: a second joined-voice event passed the eligibility checks
\* (it reached the rename) for a member whose display name at that event
\* differs from the one the store keeps.
C4_SecondJoinKeepsFirst ==
    /\ last.kind = "joined"
    /\ \E i \in Renames(last.calls) : ~last.calls[i].ok
    /\ HasSnapshot(original_nicknames, last.guild, last.member)
    /\ original_nicknames[last.guild][last.member].display_name
          # DisplayName(last.member, nick[last.guild][last.member])

\* C5 as stated: handling one voice-state event issues at most one
\* identity-mutation command, a rename or a restore, never both.
C5_AtMostOneCommand == Cardinality(Commands(last.calls)) <= 1

\* C5: handling one voice-state event issues at most one rename command and
\* at most one restore command.  It issues both only for a changed-channel
\* event out of a channel with a Custom rule, the restore first and the
\* rename second.
C5_AtMostOneRenameAndOneRestore ==
    /\ Cardinality(Commands(last.calls) \cap Renames(last.calls)) <= 1
    /\ Cardinality(Commands(last.calls) \cap Restores(last.calls)) <= 1
    /\ Cardinality(Commands(last.calls)) >= 2 =>
          /\ last.kind = "changed"
          /\ _is_custom_channel(last.guild, last.before)
          /\ Len(last.calls) = 2
          /\ last.calls[1].op = "restore"
          /\ last.calls[2].op = "rename"

\* C5, the case: one event issued a restore command and a rename command.
C5_RestoreThenRename ==
    /\ Cardinality(Commands(last.calls)) = 2
    /\ last.calls[1].ok
    /\ last.calls[2].ok

C7_RandomNameFromPool ==
    (LastIsEntry /\ _get_custom_channel_rules(last.guild, LastChannel) = <<>>) =>
        \A i \in Renames(last.calls) :
            LET configured == {r.nickname : r \in {x \in nicknames : x.guild_id = last.guild}}
            IN  /\ configured # {} => last.calls[i].nick \in configured
                /\ configured = {} => last.calls[i].nick \in DEFAULT_NICKNAMES
                /\ Len(last.calls[i].nick) <= 32

\* C7, the case: a rename carried a configured name of exactly 32 characters.
C7_RenamedToLongestAllowed ==
    /\ LastIsEntry
    /\ _get_custom_channel_rules(last.guild, LastChannel) = <<>>
    /\ \E i \in Renames(last.calls) :
          last.calls[i].nick = Name32 /\ Len(last.calls[i].nick) = 32

\* The channel is one whose entries draw from the random pool: in scope, and
\* without a Custom rule.
RandomPoolChannel(g, c) == _is_channel_allowed(g, c) /\ ~_is_custom_channel(g, c)

\* C8: when an eligible member enters a channel that has Custom rules, the
\* rename carries apply_rules(name, rules), name being the display name the
\* member's snapshot stores whenever a snapshot exists; in particular a member
\* who moves from a random-pool channel into the Custom channel gets the
\* transformation of their original display name, not of a chaos nickname.
C8_CustomRulesTransformOriginal ==
    (LastIsEntry /\ _get_custom_channel_rules(last.guild, LastChannel) # <<>>) =>
        \A i \in Renames(last.calls) :
            /\ HasSnapshot(original_nicknames, last.guild, last.member) =>
                  last.calls[i].nick =
                     apply_rules(original_nicknames[last.guild][last.member].display_name,
                                 _get_custom_channel_rules(last.guild, LastChannel))
            /\ (last.kind = "changed" /\ RandomPoolChannel(last.guild, last.before)) =>
                  last.calls[i].nick =
                     apply_rules(OwnDisplayName(last.member),
                                 _get_custom_channel_rules(last.guild, LastChannel))

\* C9: when a guild has at least one Included rule, a joined-voice or
\* changed-channel event whose destination channel has neither an Included
\* nor a Custom rule issues no rename command and stores no snapshot.
C9_OutsideAllowListUntouched ==
    [][(/\ last'.kind \in {"joined", "changed"}
        /\ \E r \in included_channels : r.guild_id = last'.guild
        /\ ~\E r \in included_channels :
               r.guild_id = last'.guild /\ r.channel_id = voice'[last'.guild][last'.member]
        /\ ~\E r \in custom_channels :
               r.guild_id = last'.guild /\ r.channel_id = voice'[last'.guild][last'.member]) =>
          /\ Renames(last'.calls) = {}
          /\ HasSnapshot(original_nicknames', last'.guild, last'.member) =>
                /\ HasSnapshot(original_nicknames, last'.guild, last'.member)
                /\ original_nicknames'[last'.guild][last'.member]
                      = original_nicknames[last'.guild][last'.member]]_vars

\* C9, the case: in an enabled guild with an Included rule an eligible member
\* joined a channel that has neither rule, and the handler made no call and
\* stored nothing.
C9_JoinedOutsideAllowList ==
    /\ last.kind = "joined"
    /\ guilds[last.guild].enabled
    /\ Eligible(last.guild, last.member, guilds[last.guild])
    /\ \E r \in included_channels : r.guild_id = last.guild
    /\ ~\E r \in included_channels : r.guild_id = last.guild /\ r.channel_id = LastChannel
    /\ ~\E r \in custom_channels : r.guild_id = last.guild /\ r.channel_id = LastChannel
    /\ last.calls = <<>>
    /\ ~HasSnapshot(original_nicknames, last.guild, last.member)

\* C10: a channel with an Excluded rule is out of scope: no joined-voice or
\* changed-channel event whose destination is an Excluded channel issues a
\* rename command.
C10_ExcludedNeverRenamed ==
    (/\ LastIsEntry
     /\ \E r \in excluded_channels : r.guild_id = last.guild /\ r.channel_id = LastChannel) =>
        Renames(last.calls) = {}

\* C11: the channel policy resolver returns in-scope for (guild, channel)
\* exactly when the channel has a Custom rule, or the guild has no Included
\* and no Custom rule at all, or the channel has an Included rule.  So a
\* Custom channel is in scope even when an Included list does not name it, and
\* in a guild with only Custom rules every other channel is out of scope.
C11_ResolverDecision ==
    \A g \in Guilds, c \in Channels :
        LET hasCustom == \E r \in custom_channels : r.guild_id = g /\ r.channel_id = c
            hasIncluded == \E r \in included_channels : r.guild_id = g /\ r.channel_id = c
            anyCustom == \E r \in custom_channels : r.guild_id = g
            anyIncluded == \E r \in included_channels : r.guild_id = g
        IN  /\ _is_channel_allowed(g, c) <=>
                  (hasCustom \/ (~anyIncluded /\ ~anyCustom) \/ hasIncluded)
            /\ (hasCustom /\ anyIncluded /\ ~hasIncluded) => _is_channel_allowed(g, c)
            /\ (anyCustom /\ ~anyIncluded /\ ~hasCustom) => ~_is_channel_allowed(g, c)

\* C11, the case: a member joined a Custom channel that the guild's Included
\* list does not name and was renamed, while a channel with no rule at all is
\* out of scope.
C11_CustomOutsideAllowList ==
    /\ last.kind = "joined"
    /\ Renames(last.calls) # {}
    /\ _is_custom_channel(last.guild, LastChannel)
    /\ \E r \in included_channels : r.guild_id = last.guild
    /\ ~\E r \in included_channels : r.guild_id = last.guild /\ r.channel_id = LastChannel
    /\ \E c \in Channels : ~_is_channel_allowed(last.guild, c)

\* C12: the guild owner is never renamed: no event for the owner, in any
\* channel and under any configuration, issues a rename command.
C12_OwnerNeverRenamed ==
    (last.kind # "none" /\ last.member = owner_id[last.guild]) =>
        Renames(last.calls) = {}

\* C12, the case: in an enabled guild the owner, who holds no immunity role
\* and whose top role is below the bot's, joined an in-scope channel and the
\* handler made no call.
C12_OwnerJoinedInScope ==
    /\ last.kind = "joined"
    /\ last.member = owner_id[last.guild]
    /\ guilds[last.guild].enabled
    /\ _is_channel_allowed(last.guild, LastChannel)
    /\ ~_has_immunity(last.guild, last.member, guilds[last.guild])
    /\ top_role[last.guild][last.member] < RolePosition.bot
    /\ last.calls = <<>>
    /\ ~HasSnapshot(original_nicknames, last.guild, last.member)

\* C13: when the bot's highest role is not strictly above the member's
\* highest role, no rename command is issued for the event.
C13_OutrankedNeverRenamed ==
    (last.kind # "none" /\ RolePosition.bot <= top_role[last.guild][last.member]) =>
        Renames(last.calls) = {}

\* C13, the case: in an enabled guild a member whose top role equals the
\* bot's, who is neither the owner nor immune, entered an in-scope channel and
\* the handler issued no command.
C13_EqualRankEntered ==
    /\ LastIsEntry
    /\ top_role[last.guild][last.member] = RolePosition.bot
    /\ last.member # owner_id[last.guild]
    /\ last.member # bot_user_id
    /\ guilds[last.guild].enabled
    /\ _is_channel_allowed(last.guild, LastChannel)
    /\ ~_has_immunity(last.guild, last.member, guilds[last.guild])
    /\ Commands(last.calls) = {}

\* C14: when the guild's enabled flag is false, handling a voice-state event
\* issues no mutator command and leaves the session store (and every
\* nickname) unchanged; after any event the guild has a settings record, even
\* if it had none before.
C14_DisabledGuildIsNoOp ==
    [][(last'.kind # "none") =>
          /\ last'.guild \in DOMAIN guilds'
          /\ ~guilds'[last'.guild].enabled =>
                /\ last'.calls = <<>>
                /\ original_nicknames' = original_nicknames
                /\ nick' = nick]_vars

\* C14, the case: a member who has a snapshot left voice in a guild that is
\* disabled and has restore-on-leave set, and the handler did nothing.
C14_DisabledLeaveKeepsSnapshot ==
    /\ last.kind = "left"
    /\ ~guilds[last.guild].enabled
    /\ guilds[last.guild].restore_on_leave
    /\ HasSnapshot(original_nicknames, last.guild, last.member)
    /\ last.calls = <<>>

\* C15: on a left-voice event in an enabled guild a restoration is attempted
\* if and only if the vacated channel has a Custom rule or restore-on-leave is
\* true; when neither holds no call is made and the store is unchanged.  No
\* rename is ever issued on left-voice.
C15_LeaveRestoresIffCustomOrSetting ==
    [][(last'.kind = "left") =>
          /\ Renames(last'.calls) = {}
          /\ guilds'[last'.guild].enabled =>
                /\ Restores(last'.calls) # {} <=>
                      (\/ _is_custom_channel(last'.guild, last'.before)
                       \/ guilds'[last'.guild].restore_on_leave)
                /\ Restores(last'.calls) = {} =>
                      /\ last'.calls = <<>>
                      /\ original_nicknames' = original_nicknames]_vars

\* C15, the case: restore-on-leave is false, a member with a snapshot left a
\* channel without a Custom rule, no call was made and the snapshot stayed.
C15_LeaveWithoutRestore ==
    /\ last.kind = "left"
    /\ guilds[last.guild].enabled
    /\ ~guilds[last.guild].restore_on_leave
    /\ ~_is_custom_channel(last.guild, last.before)
    /\ HasSnapshot(original_nicknames, last.guild, last.member)
    /\ last.calls = <<>>

\* C16: a restoration consumes the snapshot whatever the mutator's outcome:
\* when the restore command of an attempt that found a snapshot fails, the
\* snapshot is not in the store afterwards, the attempt reports failure, and
\* the event makes no second attempt.
C16_FailedRestoreConsumesSnapshot ==
    \A i \in Restores(last.calls) :
        (last.calls[i].found /\ last.calls[i].issued /\ ~last.calls[i].ok) =>
            /\ ~HasSnapshot(original_nicknames, last.guild, last.member)
            /\ Cardinality(Restores(last.calls)) = 1

\* C16, the case: a member left voice, the restore command failed, the
\* member keeps the nickname they had and the snapshot is gone.
C16_RestoreFailedOnLeave ==
    /\ last.kind = "left"
    /\ \E i \in Restores(last.calls) :
          last.calls[i].found /\ last.calls[i].issued /\ ~last.calls[i].ok
    /\ nick[last.guild][last.member] # OwnNick[last.member]
    /\ ~HasSnapshot(original_nicknames, last.guild, last.member)

\* No handler is in flight.
Quiescent == \A t \in 1..MaxTasks : tasks[t].pc = "idle"

\* C17: the handlers of a member's joined-voice event and of the following
\* left-voice event may interleave at their awaits, and the result equals
\* handling them one after the other: with restore-on-leave true, once both
\* have completed and the member is out of voice, the member holds no chaos
\* nickname and the store holds no snapshot for them.
C17_NoLostRestoration ==
    \A g \in Guilds : \A m \in guild_members[g] :
        (Quiescent /\ voice[g][m] = NoId) =>
            /\ nick[g][m] \in {OwnNick[m], OwnDisplayName(m)}
            /\ ~HasSnapshot(original_nicknames, g, m)

\* C18: missing guild settings self-heal without failure: when events of a
\* guild that has no settings record are handled concurrently, no handler
\* fails, every handler past _ensure_guild_exists holds a settings record and
\* the guild has its one record.
C18_SelfHealWithoutFailure ==
    /\ last.kind # "raised"
    /\ \A t \in 1..MaxTasks :
          tasks[t].pc \in {"resolve", "rename"} => tasks[t].guild \in DOMAIN guilds

C20_OutputAtMost32 == Len(engine.result) <= 32

\* C20, the case: a chain of several rules whose untruncated result is longer
\* than 32 characters, and an output of exactly 32.
C20_LongChainTruncated ==
    /\ Len(engine.rules) >= 2
    /\ Len(ApplyAll(engine.nickname, engine.rules)) > 32
    /\ Len(engine.result) = 32

\* The call of apply_rules before the current one.
PreviousRun == last[Len(last)]

ReverseOnly == <<Rule("reverse", None)>>

\* C21: reverse round-trips: for every name, applying [reverse] to the output
\* of applying [reverse] to the name gives the name back.
C21_ReverseRoundTrips ==
    (/\ last # <<>>
     /\ PreviousRun.rules = ReverseOnly
     /\ engine.rules = ReverseOnly)
    => engine.result = PreviousRun.nickname

\* C21, the case: a name of 32 characters that is not a palindrome went
\* through [reverse] twice.
C21_LongestNameReversedTwice ==
    /\ last # <<>>
    /\ PreviousRun.rules = ReverseOnly
    /\ engine.rules = ReverseOnly
    /\ PreviousRun.nickname = Name32
    /\ PreviousRun.result # Name32
    /\ engine.result = Name32

UpperThenLower == <<Rule("uppercase", None), Rule("lowercase", None)>>

\* A text of ASCII characters only: a character outside ASCII is written as
\* a "U+XXXX" token.
AsciiText(s) == \A i \in 1..Len(s) : Len(s[i]) = 1

\* C22 as stated: for every name, apply(name, [uppercase, lowercase]) equals
\* name.lower().
C22_UpperLowerIsLower ==
    engine.rules = UpperThenLower
    => engine.result = transform_lowercase(engine.nickname, None)

\* C22, amended: for every name made of ASCII characters only,
\* apply(name, [uppercase, lowercase]) equals name.lower().
C22_UpperLowerIsLowerOnAscii ==
    (engine.rules = UpperThenLower /\ AsciiText(engine.nickname))
    => engine.result = transform_lowercase(engine.nickname, None)

\* C22, the case: a mixed-case ASCII name of 32 characters went through
\* [uppercase, lowercase] and came out in lower case.
C22_MixedCaseNameLowered ==
    /\ last = <<>>
    /\ engine.rules = UpperThenLower
    /\ engine.nickname = Name32
    /\ engine.result # Name32
    /\ engine.result = transform_lowercase(Name32, None)

\* C23: on a changed-channel event (in an enabled guild) whose previous
\* channel has a Custom rule, a restoration is attempted before the
\* destination channel is evaluated, so before any rename, whatever the value
\* of restore-on-leave and whether or not the destination is in scope; the
\* event attempts restoration only once.
C23_CustomExitRestoresFirstAndOnce ==
    (/\ last.kind = "changed"
     /\ guilds[last.guild].enabled
     /\ _is_custom_channel(last.guild, last.before))
    => /\ last.calls # <<>>
       /\ last.calls[1].op = "restore"
       /\ Restores(last.calls) = {1}

\* C23, the case: restore-on-leave is false and a member with a snapshot
\* moved from a channel with a Custom rule to a channel out of scope; the one
\* call of the event is the restoration that found the snapshot.
C23_CustomExitToOutOfScope ==
    /\ last.kind = "changed"
    /\ guilds[last.guild].enabled
    /\ ~guilds[last.guild].restore_on_leave
    /\ _is_custom_channel(last.guild, last.before)
    /\ ~_is_channel_allowed(last.guild, LastChannel)
    /\ Len(last.calls) = 1
    /\ last.calls[1].op = "restore"
    /\ last.calls[1].found

\* C24: when the destination channel of a joined-voice or changed-channel
\* event is out of scope, no rename is issued, and (the previous channel having
\* no Custom rule) a restoration is attempted only if the event is a
\* changed-channel whose previous channel was in scope and restore-on-leave is
\* true; a move between two out-of-scope channels attempts no restoration.
C24_OutOfScopeRestoresOnlyFromScope ==
    (/\ LastIsEntry
     /\ ~_is_channel_allowed(last.guild, LastChannel))
    => /\ Renames(last.calls) = {}
       /\ (Restores(last.calls) # {} /\ ~_is_custom_channel(last.guild, last.before))
            => /\ last.kind = "changed"
               /\ _is_channel_allowed(last.guild, last.before)
               /\ guilds[last.guild].restore_on_leave

\* C25: an event that is not a channel transition (the member's channel is
\* the same before and after, or there is no channel before and after) is
\* ignored: the handler makes no call to the mutator, and the session store
\* and the member's nickname are unchanged.
C25_NoTransitionIsIgnored ==
    [][(/\ last'.kind # "none"
        /\ last'.before = voice'[last'.guild][last'.member])
       => /\ last'.calls = <<>>
          /\ original_nicknames' = original_nicknames
          /\ nick' = nick]_vars

\* C25, the case: a renamed member with a snapshot, sitting in a channel with
\* a Custom rule in an enabled guild, caused an event without a transition.
C25_MuteToggleInCustomChannel ==
    /\ last.kind = "noop"
    /\ last.before # NoId
    /\ last.before = LastChannel
    /\ guilds[last.guild].enabled
    /\ _is_custom_channel(last.guild, last.before)
    /\ HasSnapshot(original_nicknames, last.guild, last.member)
    /\ nick[last.guild][last.member] # OwnNick[last.member]
    /\ last.calls = <<>>

\* C26: snapshots are taken only on joined-voice.  When an event leaves a
\* member with a snapshot they did not have before it, or with a different
\* one, the event is that member's joined-voice event; so after a
\* changed-channel event the member's store entry is the same as before or
\* has been removed.
C26_SnapshotOnlyOnJoin ==
    [][\A g \in Guilds, m \in Members :
          (/\ HasSnapshot(original_nicknames', g, m)
           /\ \/ ~HasSnapshot(original_nicknames, g, m)
              \/ original_nicknames'[g][m] # original_nicknames[g][m])
          => /\ last'.kind = "joined"
             /\ last'.guild = g
             /\ last'.member = m]_vars

\* C26, the case: an eligible member without a snapshot moved into a channel
\* in scope and was sent a rename, and has no snapshot afterwards.
C26_RenamedOnMoveWithoutSnapshot ==
    /\ last.kind = "changed"
    /\ Renames(last.calls) # {}
    /\ Restores(last.calls) = {}
    /\ ~HasSnapshot(original_nicknames, last.guild, last.member)

\* The four eligibility failures, read off the platform and the settings: the
\* member is the bot, is the guild owner, has a top role at or above the
\* bot's, or holds the configured immunity role.
HoldsImmunityRole(g, m, guild_settings) ==
    /\ guild_settings.immunity_role_id # NoId
    /\ guild_settings.immunity_role_id \in roles[g][m]

FailsEligibility(g, m, guild_settings) ==
    \/ m = bot_user_id
    \/ m = owner_id[g]
    \/ top_role[g][m] >= RolePosition.bot
    \/ HoldsImmunityRole(g, m, guild_settings)

\* C27: when an eligibility check fails on a joined-voice or changed-channel
\* event (the member is the bot, is the guild owner, is not strictly below the
\* bot's top role, or holds the configured immunity role), the event issues no
\* rename and takes no new snapshot.  When no immunity role is configured no
\* member is treated as immune: a member who passes the other checks and
\* enters a channel in scope of an enabled guild is sent a rename, whatever
\* roles they hold.
C27_IneligibleMemberUntouched ==
    [][LastIsEntry' =>
          LET g == last'.guild
              m == last'.member
              guild_settings == guilds'[g]
          IN  /\ FailsEligibility(g, m, guild_settings) =>
                    /\ Renames(last'.calls) = {}
                    /\ HasSnapshot(original_nicknames', g, m)
                          => HasSnapshot(original_nicknames, g, m)
              /\ (/\ guild_settings.enabled
                  /\ guild_settings.immunity_role_id = NoId
                  /\ _can_rename_member(g, m)
                  /\ _is_channel_allowed(g, voice'[g][m]))
                 => Renames(last'.calls) # {}]_vars

\* C27, the case: a holder of the configured immunity role, who passes the
\* other checks, joined a channel in scope of an enabled guild; no call was
\* made and no snapshot taken.
C27_ImmuneMemberJoinedInScope ==
    /\ last.kind = "joined"
    /\ guilds[last.guild].enabled
    /\ _is_channel_allowed(last.guild, LastChannel)
    /\ _can_rename_member(last.guild, last.member)
    /\ HoldsImmunityRole(last.guild, last.member, guilds[last.guild])
    /\ last.calls = <<>>
    /\ ~HasSnapshot(original_nicknames, last.guild, last.member)

\* C28: a failed rename does not roll back the snapshot.  When the rename
\* command of a joined-voice event fails, the snapshot stored during that
\* event (the member's nickname and display name at the event) is in the
\* session store afterwards, the call reports failure, the nickname is
\* unchanged, and the event makes no second call.
C28_FailedRenameKeepsSnapshot ==
    [][(/\ last'.kind = "joined"
        /\ \E i \in Renames(last'.calls) : ~last'.calls[i].ok)
       => LET g == last'.guild
              m == last'.member
          IN  /\ HasSnapshot(original_nicknames', g, m)
              /\ ~HasSnapshot(original_nicknames, g, m)
                    => original_nicknames'[g][m] =
                          [nick |-> nick[g][m], display_name |-> DisplayName(m, nick[g][m])]
              /\ Len(last'.calls) = 1
              /\ nick' = nick]_vars

\* C28, the case: a member without a nickname and without a snapshot joined
\* a channel in scope, the rename failed, and the snapshot of their own
\* identity is in the store.
C28_RenameFailedOnJoin ==
    /\ last.kind = "joined"
    /\ Len(last.calls) = 1
    /\ last.calls[1].op = "rename"
    /\ ~last.calls[1].ok
    /\ nick[last.guild][last.member] = None
    /\ HasSnapshot(original_nicknames, last.guild, last.member)
    /\ original_nicknames[last.guild][last.member] =
          [nick |-> None, display_name |-> MemberName[last.member]]

\* The rule sequence of the Custom row of channel c in guild g.
RowRules(g, c) ==
    (CHOOSE r \in custom_channels : r.guild_id = g /\ r.channel_id = c).rules

\* The names of member m that an event may hand to the engine: the display
\* name at the start of the event, the username, and the display name of a
\* snapshot held before or after the event.
EngineInputs(g, m, before_store, after_store, before_nick) ==
    {DisplayName(m, before_nick), MemberName[m]}
    \cup (IF HasSnapshot(before_store, g, m) THEN {before_store[g][m].display_name} ELSE {})
    \cup (IF HasSnapshot(after_store, g, m) THEN {after_store[g][m].display_name} ELSE {})

\* C29: for every entry into a channel that has a Custom rule, the name
\* assigned is the output of the transformation engine on the channel's rule
\* sequence applied to a name of the member, never a name drawn from the
\* random pool, also when the channel's rule sequence is empty.
C29_CustomChannelNeverUsesPool ==
    [][(LastIsEntry' /\ _is_custom_channel(last'.guild, voice'[last'.guild][last'.member]))
       => LET g == last'.guild
              m == last'.member
          IN  \A i \in Renames(last'.calls) :
                  last'.calls[i].nick \in
                      {apply_rules(n, RowRules(g, voice'[g][m])) :
                          n \in EngineInputs(g, m, original_nicknames, original_nicknames',
                                             nick[g][m])}]_vars

RECURSIVE Stage(_, _, _)
\* Tn(...T1(text)): the output of the n-th rule of the chain, which consumes
\* the whole output of the rule before it; stage 0 is the text.
Stage(text, rules, n) ==
    IF n = 0 THEN text ELSE ApplyRule(Stage(text, rules, n - 1), rules[n])

\* The first 32 characters of a text.
First32(text) == [i \in 1..(IF Len(text) < 32 THEN Len(text) ELSE 32) |-> text[i]]

\* C30: apply_rules applies the rules in list order, each rule consuming the
\* full, untruncated output of the previous one, and truncates to 32
\* characters once, after the last rule: apply(text, [r1..rn]) is the first 32
\* characters of Tn(...T1(text)).
C30_RulesInOrderTruncatedOnce ==
    engine.result = First32(Stage(engine.nickname, engine.rules, Len(engine.rules)))

\* C30, the case: the chain's last rule is reverse and its input, the output
\* of the rules before it, is longer than 32 characters; the result is the
\* head of the reversed whole, not the reversal of a truncated input.
C30_ReverseOfOverlongStage ==
    LET n == Len(engine.rules)
    IN  /\ n >= 2
        /\ engine.rules[n].type = "reverse"
        /\ Len(Stage(engine.nickname, engine.rules, n - 1)) > 32
        /\ engine.result = First32(Reverse(Stage(engine.nickname, engine.rules, n - 1)))
        /\ engine.result # Reverse(First32(Stage(engine.nickname, engine.rules, n - 1)))

\* C31: every restore command carries the member's pre-chaos display name
\* (the nickname they had before the bot renamed them, or their username when
\* they had none); no restore command carries an unset (None) nickname.
C31_RestoreCarriesDisplayName ==
    \A i \in Restores(last.calls) :
        last.calls[i].issued =>
            /\ last.calls[i].nick # None
            /\ last.calls[i].nick = OwnDisplayName(last.member)

\* Task t is the handler of a left-voice event and ends in this step.
LeftHandlerEnds(t) ==
    /\ tasks[t].pc = "resolve"
    /\ _user_left_voice(tasks[t].before, tasks[t].after)
    /\ tasks'[t].pc = "idle"

\* C32: pop-on-restore is atomic.  A restoration attempt that obtains the
\* member's snapshot removes it from the store in the same step and its
\* command carries the snapshot's display name; an attempt that runs when the
\* snapshot is gone obtains nothing and carries no snapshot value.  So of two
\* interleaved attempts for the same (guild, member) at most one obtains the
\* snapshot and at most one command carries its value.
C32_PopOnRestoreIsAtomic ==
    [][\A t \in 1..MaxTasks :
          LeftHandlerEnds(t) =>
              LET g == tasks[t].guild
                  m == tasks[t].member
              IN  \A i \in Restores(last'.calls) :
                      IF HasSnapshot(original_nicknames, g, m)
                      THEN /\ last'.calls[i].found
                           /\ last'.calls[i].nick = original_nicknames[g][m].display_name
                           /\ ~HasSnapshot(original_nicknames', g, m)
                      ELSE /\ ~last'.calls[i].found
                           /\ last'.calls[i].nick = None
                           /\ original_nicknames' = original_nicknames]_vars

\* C32, the case: a restoration attempt has obtained and removed the
\* member's snapshot while the handler of another left-voice event of the same
\* member is still in flight, about to make its own attempt.
C32_SecondAttemptInFlight ==
    /\ last.kind = "left"
    /\ \E i \in Restores(last.calls) : last.calls[i].found /\ last.calls[i].issued
    /\ ~HasSnapshot(original_nicknames, last.guild, last.member)
    /\ \E t \in 1..MaxTasks :
          /\ tasks[t].pc = "resolve"
          /\ tasks[t].guild = last.guild
          /\ tasks[t].member = last.member
          /\ _user_left_voice(tasks[t].before, tasks[t].after)

\* The rule variants that have a row for channel c of guild g.
Variants(g, c) ==
    {v \in {"included", "custom", "excluded"} :
        \E r \in (CASE v = "included" -> included_channels
                    [] v = "custom" -> custom_channels
                    [] v = "excluded" -> excluded_channels) :
            r.guild_id = g /\ r.channel_id = c}

\* C33: channel-rule variants are mutually exclusive per channel: after any
\* sequence of dashboard API operations no (guild, channel) pair carries rules
\* of two different variants at once.
C33_VariantsMutuallyExclusive ==
    \A g \in Guilds, c \in Channels : Cardinality(Variants(g, c)) <= 1

\* C34: whenever the handler issues a rename command for a member, the
\* session store holds a snapshot for that member at that moment, so every
\* chaos nickname has a restore path; this holds for every sequence of events.
C34_RenameHasSnapshot ==
    \A i \in Renames(last.calls) :
        HasSnapshot(original_nicknames, last.guild, last.member)

\* C35: with default settings (enabled, restore_on_leave true), unchanged
\* channel rules and events handled one at a time, a member who is in no voice
\* channel has no snapshot in the session store.
C35_NoDanglingSessions ==
    \A g \in Guilds, m \in Members :
        voice[g][m] = NoId => ~HasSnapshot(original_nicknames, g, m)

\* A member has left voice and the handler popped the snapshot taken on join.
C35_LeftAfterSnapshot ==
    /\ last # NoEvent
    /\ last.kind = "left"
    /\ Restores(last.calls) # {}
    /\ \E i \in Restores(last.calls) : last.calls[i].found
    /\ voice[last.guild][last.member] = NoId

----------------------------------------------------------------------------
(* web/routes/api.py: add_custom_channel and add_included_channel as       *)
(* coroutines.  Each request is suspended at its SELECT and at its commit,  *)
(* so the requests in flight interleave between the two.                    *)

\* The number of rows a table's autoincrement sequence hands out while
\* requests are interleaved.
MaxRows == 2

\* A request in flight: the endpoint's table, its path and body, and the await
\* it is suspended at.
Request(table, g, channel_id, rules, pc) ==
    [pc |-> pc, table |-> table, guild |-> g, channel_id |-> channel_id, rules |-> rules]

\* The rows of a table for (guild, channel): what the WHERE clause of the
\* endpoints and of the handler's lookups selects.
RowsFor(table, g, channel_id) ==
    {r \in (IF table = "custom_channels" THEN custom_channels ELSE included_channels) :
        r.guild_id = g /\ r.channel_id = channel_id}

\* POST /guilds/{guild_id}/custom-channels or /included-channels arrives and
\* its coroutine starts (lines 579-586, 664-671).
PostChannel(table, g, channel_id, rules) ==
    /\ \E t \in 1..MaxTasks : tasks[t].pc = "idle"
    /\ tasks' = [tasks EXCEPT ![FreeSlot] = Request(table, g, channel_id, rules, "select")]
    /\ last' = NoEvent
    /\ UNCHANGED <<db, original_nicknames, nick, voice, platform, history, engine, simple>>

\* Lines 588-595 and 673-680: the SELECT of the row for (guild, channel); when
\* one exists the request ends with HTTP 400, otherwise it goes on to insert.
SelectChannel(t) ==
    /\ tasks[t].pc = "select"
    /\ tasks' = [tasks EXCEPT ![t] =
                    IF RowsFor(tasks[t].table, tasks[t].guild, tasks[t].channel_id) # {}
                    THEN IdleTask
                    ELSE [@ EXCEPT !.pc = "commit"]]
    /\ last' = NoEvent
    /\ UNCHANGED <<db, original_nicknames, nick, voice, platform, history, engine, simple>>

\* Lines 597-603 and 682-689: session.add and session.commit.  The tables
\* carry no constraint on (guild_id, channel_id) (database.py 83-95), so the
\* INSERT succeeds whatever rows exist by now.
CommitChannel(t) ==
    /\ tasks[t].pc = "commit"
    /\ seq[tasks[t].table] < MaxRows
    /\ seq' = [seq EXCEPT ![tasks[t].table] = @ + 1]
    /\ IF tasks[t].table = "custom_channels"
       THEN /\ custom_channels' = custom_channels \cup
                  {[id |-> seq.custom_channels + 1, guild_id |-> tasks[t].guild,
                    channel_id |-> tasks[t].channel_id, rules |-> tasks[t].rules]}
            /\ UNCHANGED included_channels
       ELSE /\ included_channels' = included_channels \cup
                  {[id |-> seq.included_channels + 1, guild_id |-> tasks[t].guild,
                    channel_id |-> tasks[t].channel_id]}
            /\ UNCHANGED custom_channels
    /\ tasks' = [tasks EXCEPT ![t] = IdleTask]
    /\ last' = NoEvent
    /\ UNCHANGED <<guilds, nicknames, excluded_channels, original_nicknames, nick, voice,
                   platform, history, engine, simple>>

NextRequests ==
    \/ \E g \in Guilds, c \in Channels, r \in RuleInputs :
          PostChannel("custom_channels", g, c, r)
    \/ \E g \in Guilds, c \in Channels : PostChannel("included_channels", g, c, <<>>)
    \/ \E t \in 1..MaxTasks : SelectChannel(t)
    \/ \E t \in 1..MaxTasks : CommitChannel(t)

SpecRequests == InitApi /\ [][NextRequests]_vars

\* C36: whatever the interleaving of concurrent add_custom_channel (or
\* add_included_channel) requests, a (guild, channel) has at most one Custom
\* (or Included) row, so a single-row lookup never finds two.
C36_AtMostOneRowPerChannel ==
    \A table \in {"custom_channels", "included_channels"}, g \in Guilds, c \in Channels :
        Cardinality(RowsFor(table, g, c)) <= 1

----------------------------------------------------------------------------
(* web/routes/dependencies.py, web/discord_oauth.py, web/routes/api.py:    *)
(* who may call the dashboard's endpoints.                                  *)

\* Discord accounts that use the dashboard, and the rows of user_sessions:
\* "frank" has never logged in.
Users == {"carol", "dave", "erin", "frank"}
UserSessions == {"carol", "dave", "erin"}

\* Discord permission bits.
ADMINISTRATOR == 8
MANAGE_GUILD == 32
VIEW_CHANNEL == 1024

\* What GET /users/@me/guilds answers for each user: the guilds the user is a
\* member of with the user's permissions there.  carol administers the guild,
\* erin manages it, dave is an ordinary member, frank is in no guild.
UserGuilds ==
    [u \in Users |->
        CASE u = "carol" -> [g \in Guilds |-> [permissions |-> ADMINISTRATOR + VIEW_CHANNEL]]
          [] u = "erin"  -> [g \in Guilds |-> [permissions |-> MANAGE_GUILD + VIEW_CHANNEL]]
          [] u = "dave"  -> [g \in Guilds |-> [permissions |-> VIEW_CHANNEL]]
          [] OTHER       -> EmptyDict]

\* The & of two non-negative integers.
RECURSIVE BitAnd(_, _)
BitAnd(a, b) ==
    IF a = 0 \/ b = 0 THEN 0
    ELSE (a % 2) * (b % 2) + 2 * BitAnd(a \div 2, b \div 2)

\* DiscordOAuth.user_has_admin.
user_has_admin(guild) == BitAnd(guild.permissions, ADMINISTRATOR + MANAGE_GUILD) # 0

\* The user has Administrator or Manage Guild in the guild.
HasAdminIn(user, g) ==
    /\ user \in Users
    /\ g \in DOMAIN UserGuilds[user]
    /\ user_has_admin(UserGuilds[user][g])

\* config.log_viewer_id is not set.
log_viewer_id == NoId
_is_log_viewer(user) == log_viewer_id # NoId /\ user = log_viewer_id

\* GET /guilds: the guilds the dashboard offers the user.
get_user_guilds(user) ==
    IF _is_log_viewer(user) THEN DOMAIN guilds
    ELSE {g \in DOMAIN UserGuilds[user] : user_has_admin(UserGuilds[user][g])}
            \cap DOMAIN guilds

\* The state of the stored access token when a request arrives.
TokenStates == {"valid", "refreshed", "refresh_failed"}

\* get_current_user: the session's user, or no id for HTTP 401 (no cookie, no
\* session row, or an expired token that could not be refreshed).
get_current_user(session_id, token) ==
    IF session_id = NoId THEN NoId
    ELSE IF session_id \notin UserSessions THEN NoId
    ELSE IF token = "refresh_failed" THEN NoId
    ELSE session_id

\* A request for /guilds/{g}/... arrives and FastAPI resolves
\* Depends(get_current_user); on 401 the endpoint is not entered.
Authenticate(session_id, g, token) ==
    /\ last' = IF get_current_user(session_id, token) = NoId THEN NoEvent
               ELSE [kind |-> "request", guild |-> g,
                     member |-> get_current_user(session_id, token),
                     before |-> NoId, calls |-> <<>>]
    /\ last' # last
    /\ UNCHANGED <<db, original_nicknames, nick, voice, platform, history, runtime>>

\* The body of the endpoint the authenticated request addresses.
ServeRequest ==
    /\ last.kind = "request"
    /\ \/ \E s \in SettingsInputs : update_guild_settings(last.guild, s)
       \/ \E n \in NicknameInputs : add_nickname(last.guild, n)
       \/ \E i \in 1..MaxRowId : delete_nickname(last.guild, i)
       \/ \E c \in Channels : add_included_channel(last.guild, c)
       \/ \E i \in 1..MaxRowId : remove_included_channel(last.guild, i)
       \/ \E c \in Channels, r \in RuleInputs : add_custom_channel(last.guild, c, r)
       \/ \E i \in 1..MaxRowId, r \in RuleInputs : update_custom_channel(last.guild, i, r)
       \/ \E i \in 1..MaxRowId : delete_custom_channel(last.guild, i)

NextDashboard ==
    \/ \E g \in Guilds : on_guild_join(g)
    \/ \E session_id \in Users \cup {NoId}, g \in Guilds, token \in TokenStates :
          Authenticate(session_id, g, token)
    \/ ServeRequest

SpecDashboard == InitApi /\ [][NextDashboard]_vars

\* C37: a request by an authenticated user who has neither Administrator nor
\* Manage Guild in the target guild changes nothing of the guild's settings,
\* nickname pool or channel rules.
C37_OnlyAdminsChange ==
    [][(last.kind = "request" /\ ~HasAdminIn(last.member, last.guild))
          => UNCHANGED <<guilds, nicknames, rulesTables>>]_vars

----------------------------------------------------------------------------
(* cogs/voice_handler.py: the simple handler.  It has no database: its     *)
(* settings are attributes, its pool is DEFAULT_NICKNAMES and its store     *)
(* maps a member to the nickname alone.  _user_joined_voice,                *)
(* _user_left_voice, _can_rename_member and _change_nickname are the same   *)
(* code as in the full handler.                                             *)

\* self.restore_on_leave, line 27.
restore_on_leave == TRUE

\* _get_random_nickname, lines 29-31: any entry of self.nicknames.
_get_random_nickname == DEFAULT_NICKNAMES

\* _store_original_nickname, lines 33-46: the nickname is stored when the
\* member has no entry.
SimpleStore(store, g, m, nickname) ==
    LET withGuild == IF g \in DOMAIN store THEN store ELSE store @@ (g :> EmptyDict)
    IN  IF m \in DOMAIN withGuild[g] THEN withGuild
        ELSE [withGuild EXCEPT ![g] = @ @@ (m :> nickname)]

\* _pop_original_nickname, lines 48-56, the value returned: the stored
\* nickname (None when the member had none), or None without an entry.
SimplePopped(store, g, m) ==
    IF HasSnapshot(store, g, m) THEN store[g][m] ELSE None

\* A variant of the simple _restore_nickname that calls member.edit only when
\* a snapshot was stored.
SimpleRestoreOnlyStored(S, g, m, ok) ==
    LET original == SimplePopped(S.store, g, m)
        edits == HasSnapshot(S.store, g, m)
    IN  [store |-> PoppedStore(S.store, g, m),
         nick |-> IF edits /\ ok THEN original ELSE S.nick,
         calls |-> Append(S.calls,
                      Call("restore", edits, original, edits /\ ok, HasSnapshot(S.store, g, m)))]

\* _restore_nickname, lines 82-105; ok is the outcome of member.edit when it
\* is called.
SimpleRestore(S, g, m, ok) ==
    LET original == SimplePopped(S.store, g, m)
        edits == RestoreEdits(S.store, g, original)
    IN  [store |-> PoppedStore(S.store, g, m),
         nick |-> IF edits /\ ok THEN original ELSE S.nick,
         calls |-> Append(S.calls,
                      Call("restore", edits, original, edits /\ ok, HasSnapshot(S.store, g, m)))]

\* on_voice_state_update, lines 145-175: the set of results the simple
\* handler may end with.
SimpleUpdate(S0, g, m, before, after, Outcomes) ==
    IF _user_joined_voice(before, after)
    THEN IF ~_can_rename_member(g, m) THEN {S0}
         ELSE LET S1 == [S0 EXCEPT !.store = SimpleStore(S0.store, g, m, S0.nick)]
              IN  {_change_nickname(S1, new_nickname, ok) :
                      new_nickname \in _get_random_nickname, ok \in Outcomes}
    ELSE IF _user_left_voice(before, after)
    THEN IF restore_on_leave
         THEN {SimpleRestore(S0, g, m, ok) : ok \in Outcomes}
         ELSE {S0}
    ELSE {S0}

\* One voice-state update is delivered to both handlers, each with its own
\* store and its own platform; member.edit may fail for either.
BothHandle(g, m, before, after) ==
    /\ m \in guild_members[g]
    /\ voice[g][m] = before
    /\ guilds' = _ensure_guild_exists(g)
    /\ \E S \in on_voice_state_update(
                    [store |-> original_nicknames, nick |-> nick[g][m], calls |-> <<>>],
                    g, m, before, after, guilds'[g], BOOLEAN) :
          /\ original_nicknames' = S.store
          /\ nick' = [nick EXCEPT ![g][m] = S.nick]
          /\ last' = [kind |-> EventKind(before, after), guild |-> g, member |-> m,
                      before |-> before, calls |-> S.calls]
    /\ \E T \in SimpleUpdate(
                    [store |-> simple.original_nicknames, nick |-> simple.nick[g][m],
                     calls |-> <<>>],
                    g, m, before, after, BOOLEAN) :
          simple' = [original_nicknames |-> T.store,
                     nick |-> [simple.nick EXCEPT ![g][m] = T.nick],
                     calls |-> T.calls]
    /\ voice' = [voice EXCEPT ![g][m] = after]
    /\ UNCHANGED <<nicknames, rulesTables, seq, platform, history, tasks, engine>>

\* Without channel rules both handlers treat every voice channel alike; the
\* members move between two of them.
OpenChannels == {"c1", "c2"}

BothJoined ==
    \E g \in Guilds, m \in Members, c \in OpenChannels : BothHandle(g, m, NoId, c)
BothLeft ==
    \E g \in Guilds, m \in Members, c \in OpenChannels : BothHandle(g, m, c, NoId)

\* Two members in a guild without settings row (the full handler creates the
\* default one: enabled, restore_on_leave true, no immunity role), without
\* channel rules and with an empty custom pool; "alice" is any persona.
InitBoth ==
    /\ guilds = EmptyDict
    /\ nicknames = {}
    /\ included_channels = {}
    /\ custom_channels = {}
    /\ excluded_channels = {}
    /\ seq = [nicknames |-> 0, included_channels |-> 0, custom_channels |-> 0]
    /\ original_nicknames = EmptyDict
    /\ nick = [g \in Guilds |-> [m \in Members |-> OwnNick[m]]]
    /\ voice = [g \in Guilds |-> [m \in Members |-> NoId]]
    /\ guild_members = [g \in Guilds |-> Members]
    /\ \E p \in Personas : PersonaInit(p)
    /\ renamed = {}
    /\ restored = {}
    /\ last = NoEvent
    /\ tasks = NoTasks
    /\ simple = NoSimple
    /\ engine = NoRun

NextBoth == BothJoined \/ BothLeft

SpecBoth == InitBoth /\ [][NextBoth]_vars

\* The kinds of the commands a handler issued at an event, in order.
CommandKinds(calls) ==
    LET issued == SelectSeq(calls, LAMBDA c : c.issued)
    IN  [i \in 1..Len(issued) |-> issued[i].op]

\* The (guild, member) keys a session store holds a snapshot for.
SnapshotKeys(store) ==
    {<<g, m>> \in Guilds \X Members : HasSnapshot(store, g, m)}

\* C38: on histories of joined-voice and left-voice events in an enabled
\* guild with restore_on_leave true, no channel rules, no immunity role and an
\* empty custom pool, the simple and the full handler issue the same kind of
\* command (rename, restore or none) at every event, and after every event
\* their stores hold snapshots for the same (guild, member) keys.
C38_HandlersAgree ==
    /\ CommandKinds(last.calls) = CommandKinds(simple.calls)
    /\ SnapshotKeys(original_nicknames) = SnapshotKeys(simple.original_nicknames)

\* A member who may not be renamed has left voice while another member's
\* snapshot keeps the guild's dict alive: both handlers issued a restore
\* without a snapshot.
C38_RestoreWithoutSnapshotInBoth ==
    /\ last.kind = "left"
    /\ ~_can_rename_member(last.guild, last.member)
    /\ CommandKinds(last.calls) = <<"restore">>
    /\ CommandKinds(simple.calls) = <<"restore">>
    /\ SnapshotKeys(simple.original_nicknames) # {}
====
